---- MODULE Spec2Model ----
(***************************************************************************)
(* DepEdit (src/depedit/depedit.py): a rule-driven rewriter of dependency  *)
(* parsed sentences.  The module models run_depedit and everything it      *)
(* calls: the reader, process_sentence (matching, relation evaluation, the  *)
(* binding joiner merge_sets, the action executor) and the serializer.     *)
(*                                                                         *)
(* Representation.  A Python string is the sequence of its characters,     *)
(* each a one-character TLA+ string, so that find/split/replace/regex      *)
(* scanning are computed as the code computes them.  A Python object with  *)
(* identity (a ParsedToken, a Match) is named by where it was created: a   *)
(* token by its index in conll_tokens, a Match by its place in the list    *)
(* process_sentence builds.  A token's attributes are a function from the  *)
(* attribute name to its value, which is what getattr/setattr act on.      *)
(***************************************************************************)
EXTENDS Integers, Sequences, FiniteSets, TLC

\* ------------------------------------------------------------------
\* Bounds of the model (not program constants)
\* ------------------------------------------------------------------
MaxTokens == 3

\* ------------------------------------------------------------------
\* Python str operations, on sequences of characters
\* ------------------------------------------------------------------
Digits == <<"0", "1", "2", "3", "4", "5", "6", "7", "8", "9">>

IsDigit(c) == \E i \in 1..10 : Digits[i] = c

DigitVal(c) == (CHOOSE i \in 1..10 : Digits[i] = c) - 1

RECURSIVE StrToInt(_)
\* int(s) for a string of decimal digits
StrToInt(s) ==
  IF Len(s) = 0 THEN 0
  ELSE 10 * StrToInt(SubSeq(s, 1, Len(s) - 1)) + DigitVal(s[Len(s)])

RECURSIVE IntToStr(_)
\* str(n) for a natural number
IntToStr(n) ==
  IF n < 10 THEN <<Digits[n + 1]>>
  ELSE IntToStr(n \div 10) \o <<Digits[(n % 10) + 1]>>

\* s[a:b] with Python's 0-based, end-exclusive offsets
Slice(s, a, b) == SubSeq(s, a + 1, b)

\* s.startswith(p)
StartsWith(s, p) == Len(p) <= Len(s) /\ SubSeq(s, 1, Len(p)) = p

\* the 0-based offsets at which sub occurs in s
Occurrences(s, sub) ==
  {i \in 0..(Len(s) - Len(sub)) : SubSeq(s, i + 1, i + Len(sub)) = sub}

\* sub in s
Contains(s, sub) == Occurrences(s, sub) # {}

Min(S) == CHOOSE x \in S : \A y \in S : x <= y

Max(S) == CHOOSE x \in S : \A y \in S : x >= y

\* s.find(sub): the first offset, or -1
Find(s, sub) == IF Contains(s, sub) THEN Min(Occurrences(s, sub)) ELSE -1

\* s.rfind(sub): the last offset, or -1
RFind(s, sub) == IF Contains(s, sub) THEN Max(Occurrences(s, sub)) ELSE -1

RECURSIVE Split(_, _)
\* s.split(sep), sep non-empty: the pieces between non-overlapping
\* occurrences taken left to right
Split(s, sep) ==
  IF ~Contains(s, sep) THEN <<s>>
  ELSE LET i == Find(s, sep)
       IN <<Slice(s, 0, i)>> \o Split(Slice(s, i + Len(sep), Len(s)), sep)

\* s.split(sep, 1)
Split1(s, sep) ==
  IF ~Contains(s, sep) THEN <<s>>
  ELSE LET i == Find(s, sep)
       IN <<Slice(s, 0, i), Slice(s, i + Len(sep), Len(s))>>

RECURSIVE Replace(_, _, _)
\* s.replace(old, new), old non-empty; re.sub of a literal pattern by a
\* literal replacement is the same scan
Replace(s, old, new) ==
  IF ~Contains(s, old) THEN s
  ELSE LET i == Find(s, old)
       IN Slice(s, 0, i) \o new \o Replace(Slice(s, i + Len(old), Len(s)), old, new)

RECURSIVE Strip(_)
\* s.strip(), for the blank character
Strip(s) ==
  IF Len(s) > 0 /\ s[1] = " " THEN Strip(Tail(s))
  ELSE IF Len(s) > 0 /\ s[Len(s)] = " " THEN Strip(SubSeq(s, 1, Len(s) - 1))
  ELSE s

LowerCase == <<"a", "b", "c", "d", "e", "v", "x", "y">>

UpperCase == <<"A", "B", "C", "D", "E", "V", "X", "Y">>

\* c.lower() over the letters the model's inputs use
LowerChar(c) ==
  IF \E i \in 1..Len(UpperCase) : UpperCase[i] = c
  THEN LowerCase[CHOOSE i \in 1..Len(UpperCase) : UpperCase[i] = c]
  ELSE c

UpperChar(c) ==
  IF \E i \in 1..Len(LowerCase) : LowerCase[i] = c
  THEN UpperCase[CHOOSE i \in 1..Len(LowerCase) : LowerCase[i] = c]
  ELSE c

\* s.lower(), s.upper()
Lower(s) == [i \in 1..Len(s) |-> LowerChar(s[i])]

Upper(s) == [i \in 1..Len(s) |-> UpperChar(s[i])]

\* The code points of the characters relation texts are made of, in
\* increasing order: list.sort() on strings compares them by code point.
CodeOrder ==
  <<"#", ",", ".", "0", "1", "2", "3", "4", "5", "6", "7", "8", "9", ":", "=", ">",
    "a", "c", "d", "e", "f", "h", "l", "m", "n", "o", "p", "r", "s", "t", "u", "x">>

Code(c) == CHOOSE i \in 1..Len(CodeOrder) : CodeOrder[i] = c

RECURSIVE StrLess(_, _)
\* a < b for Python strings
StrLess(a, b) ==
  IF Len(b) = 0 THEN FALSE
  ELSE IF Len(a) = 0 THEN TRUE
  ELSE IF a[1] = b[1] THEN StrLess(Tail(a), Tail(b))
  ELSE Code(a[1]) < Code(b[1])

RECURSIVE InsertSorted(_, _)
InsertSorted(sorted, x) ==
  IF Len(sorted) = 0 THEN <<x>>
  ELSE IF StrLess(x, Head(sorted)) THEN <<x>> \o sorted
  ELSE <<Head(sorted)>> \o InsertSorted(Tail(sorted), x)

RECURSIVE SortStrings(_)
\* list.sort() of a list of strings (stable; equal strings are equal values)
SortStrings(l) ==
  IF Len(l) = 0 THEN <<>>
  ELSE InsertSorted(SortStrings(SubSeq(l, 1, Len(l) - 1)), l[Len(l)])

\* str(float(n)) for an integral value: "3.0", "-2.0"
FloatStr(n) ==
  IF n < 0 THEN <<"-">> \o IntToStr(-n) \o <<".", "0">> ELSE IntToStr(n) \o <<".", "0">>

\* float(s) for the numerals the reader and the rules produce: digits with
\* an optional ".0" (integral values)
ParseFloat(s) ==
  IF Contains(s, <<".">>) THEN StrToInt(Slice(s, 0, Find(s, <<".">>)))
  ELSE StrToInt(s)

\* ------------------------------------------------------------------
\* ParsedToken: attribute names and attribute access
\* ------------------------------------------------------------------
A_id == <<"i", "d">>

A_text == <<"t", "e", "x", "t">>

A_lemma == <<"l", "e", "m", "m", "a">>

A_pos == <<"p", "o", "s">>

A_cpos == <<"c", "p", "o", "s">>

A_morph == <<"m", "o", "r", "p", "h">>

A_head == <<"h", "e", "a", "d">>

A_func == <<"f", "u", "n", "c">>

A_head2 == <<"h", "e", "a", "d", "2">>

A_func2 == <<"f", "u", "n", "c", "2">>

A_num == <<"n", "u", "m">>

A_child_funcs == <<"c", "h", "i", "l", "d", "_", "f", "u", "n", "c", "s">>

A_position == <<"p", "o", "s", "i", "t", "i", "o", "n">>

A_is_super_tok == <<"i", "s", "_", "s", "u", "p", "e", "r", "_", "t", "o", "k">>

\* ParsedToken(*args): the object's attribute dictionary, args in the order
\* of __init__'s parameters
ParsedToken(args) ==
  (A_id :> args[1]) @@ (A_text :> args[2]) @@ (A_pos :> args[4]) @@ (A_cpos :> args[5])
  @@ (A_lemma :> args[3]) @@ (A_morph :> args[6]) @@ (A_head :> args[7])
  @@ (A_func :> args[8]) @@ (A_head2 :> args[9]) @@ (A_func2 :> args[10])
  @@ (A_num :> args[11]) @@ (A_child_funcs :> args[12]) @@ (A_position :> args[13])
  @@ (A_is_super_tok :> args[14])

\* setattr(token, name, value): an unknown name becomes a new attribute
SetAttr(token, name, value) ==
  [a \in (DOMAIN token) \cup {name} |-> IF a = name THEN value ELSE token[a]]

\* int(float(s)) of an id or head attribute
IntFloat(s) == ParseFloat(s)

\* ------------------------------------------------------------------
\* Definition, DefinitionMatcher, Match
\* ------------------------------------------------------------------
\* A compiled regex of the family the model's rules use: "^" prefix "(.*)$"
\* when capture, "^" prefix ".*$" when not.  compiled_re.search(test_val):
\* FALSE for no match, else the tuple match_obj.groups().
RegexSearch(compiled_re, test_val) ==
  IF StartsWith(test_val, compiled_re.prefix)
  THEN [matched |-> TRUE,
        groups |-> IF compiled_re.capture
                   THEN <<Slice(test_val, Len(compiled_re.prefix), Len(test_val))>>
                   ELSE <<>>]
  ELSE [matched |-> FALSE, groups |-> <<>>]

\* def_item.match_func(def_item, tok_value): [ok, groups]; groups is the
\* tuple of a regex match object, <<>> for the boolean results
MatchFunc(def_item, tok_value) ==
  CASE def_item.match_func = "return_true" -> [ok |-> TRUE, groups |-> <<>>]
    [] def_item.match_func = "return_exact"
         -> [ok |-> tok_value = def_item.value, groups |-> <<>>]
    [] def_item.match_func = "return_exact_negative"
         -> [ok |-> tok_value # def_item.value, groups |-> <<>>]
    [] def_item.match_func = "return_regex"
         -> LET m == RegexSearch(def_item.compiled_re, tok_value)
            IN [ok |-> m.matched, groups |-> m.groups]
    [] def_item.match_func = "return_regex_negative"
         -> [ok |-> ~RegexSearch(def_item.compiled_re, tok_value).matched,
             groups |-> <<>>]

RECURSIVE MatchDefs(_, _, _)
\* the loop of DefinitionMatcher.match from def_item k on: [ok, groups],
\* groups the list potential_groups (one tuple per regex that captured)
MatchDefs(defs, token, k) ==
  IF k > Len(defs) THEN [ok |-> TRUE, groups |-> <<>>]
  ELSE LET r == MatchFunc(defs[k], token[defs[k].criterion])
           rest == MatchDefs(defs, token, k + 1)
       IN IF ~r.ok THEN [ok |-> FALSE, groups |-> <<>>]
          ELSE IF ~rest.ok THEN rest
          ELSE [ok |-> TRUE,
                groups |-> (IF Len(r.groups) > 0 THEN <<r.groups>> ELSE <<>>)
                           \o rest.groups]

\* DefinitionMatcher.match(token)
DefMatch(def_matcher, token) == MatchDefs(def_matcher.defs, token, 1)

\* Match(def_index, token, groups); token is the index in conll_tokens
Match(def_index, token, groups) ==
  [def_index |-> def_index, token |-> token, groups |-> groups]

\* defaultdict(list) lookup
Lookup(d, key) == IF key \in DOMAIN d THEN d[key] ELSE <<>>

RECURSIVE CollectMatchesAll(_, _, _, _)
\* CollectMatches without the test of is_super_tok
CollectMatchesAll(def_matcher, tokens, first, last) ==
  IF first > last THEN <<>>
  ELSE LET tok == tokens[first]
           m == DefMatch(def_matcher, tok)
       IN (IF m.ok
           THEN <<Match(def_matcher.def_index, first, m.groups)>>
           ELSE <<>>)
          \o CollectMatchesAll(def_matcher, tokens, first + 1, last)

RECURSIVE CollectMatches(_, _, _, _)
\* process_sentence, the inner loop: the Match list of one def_matcher over
\* the tokens first..last of conll_tokens
CollectMatches(def_matcher, tokens, first, last) ==
  IF first > last THEN <<>>
  ELSE LET tok == tokens[first]
           m == DefMatch(def_matcher, tok)
       IN (IF ~tok[A_is_super_tok] /\ m.ok
           THEN <<Match(def_matcher.def_index, first, m.groups)>>
           ELSE <<>>)
          \o CollectMatches(def_matcher, tokens, first + 1, last)

RECURSIVE NodeMatches(_, _, _, _, _)
\* process_sentence, lines 302-307: node_matches after the definitions from
\* k on; a key exists only once a Match was appended under it
NodeMatches(definitions, tokens, first, last, k) ==
  IF k > Len(definitions) THEN <<>>  \* the empty dictionary
  ELSE LET ms == CollectMatches(definitions[k], tokens, first, last)
           rest == NodeMatches(definitions, tokens, first, last, k + 1)
           idx == definitions[k].def_index
       IN IF Len(ms) = 0 THEN rest
          ELSE [n \in (DOMAIN rest) \cup {idx} |->
                  IF n = idx THEN ms \o Lookup(rest, idx) ELSE rest[n]]

\* ------------------------------------------------------------------
\* matches_relation and test_relation
\* ------------------------------------------------------------------
RECURSIVE DigitPrefix(_)
\* the longest prefix of s made of digits: what [0-9]* or [0-9]+ consumes
DigitPrefix(s) ==
  IF Len(s) > 0 /\ IsDigit(s[1]) THEN <<s[1]>> \o DigitPrefix(Tail(s)) ELSE <<>>

\* s matches [0-9]*,?[0-9]* in full
IsDistance(s) ==
  LET d1 == DigitPrefix(s)
      r1 == Slice(s, Len(d1), Len(s))
      r2 == IF Len(r1) > 0 /\ r1[1] = "," THEN Tail(r1) ELSE r1
  IN DigitPrefix(r2) = r2

\* lines 324-327: re.search(r':(.+)==', relation), leftmost start and greedy
\* group; [operator |-> m.group(), field |-> m.group(1)]
SearchFieldOperator(relation) ==
  LET ends == Occurrences(relation, <<"=", "=">>)
      starts == {i \in Occurrences(relation, <<":">>) : \E j \in ends : j >= i + 2}
      i == Min(starts)
      j == Max(ends)
  IN [operator |-> Slice(relation, i, j + 2), field |-> Slice(relation, i + 1, j)]

\* lines 329-334: the operator of a relation that contains "."
DistanceOperator(relation) ==
  IF \E i \in Occurrences(relation, <<".">>) :
        i + 2 <= Len(relation) /\ IsDigit(relation[i + 2])
  THEN \* re.match(r'.*\.[0-9]*,?[0-9]*#', relation): the greedy .* ends at
       \* the last "." that is followed by a distance and a "#"
       LET ok(i) == \E q \in Occurrences(relation, <<"#">>) :
                       /\ q > i
                       /\ IsDistance(Slice(relation, i + 1, q))
           i == Max({k \in Occurrences(relation, <<".">>) : ok(k)})
           q == Min({k \in Occurrences(relation, <<"#">>) :
                       k > i /\ IsDistance(Slice(relation, i + 1, k))})
           operator == Slice(relation, 0, q + 1)
       IN Slice(operator, Find(operator, <<".">>), RFind(operator, <<"#">>))
  ELSE <<".">>

\* lines 323-336: operator and field of a relation text
RelationOperator(relation) ==
  IF Contains(relation, <<"=", "=">>)
  THEN SearchFieldOperator(relation)
  ELSE IF Contains(relation, <<".">>)
  THEN [operator |-> DistanceOperator(relation), field |-> <<>>]
  ELSE [operator |-> <<">">>, field |-> <<>>]

\* int(node.replace("#", ""))
NodeInt(node) == StrToInt(Replace(node, <<"#">>, <<>>))

\* lines 353-356 and 377: the two node indices of a binary relation
RelationNodes(relation) ==
  LET parts == Split(relation, RelationOperator(relation).operator)
  IN <<NodeInt(parts[1]), NodeInt(parts[2])>>

\* test_relation with the second number of a distance ".k,m" ignored
TestRelationMinOnly(node1, node2, operator) ==
  IF operator = <<".">>
  THEN IntFloat(node2[A_id]) = IntFloat(node1[A_id]) + 1
  ELSE IF operator = <<">">>
  THEN IntFloat(node2[A_head]) = IntFloat(node1[A_id])
  ELSE IF Contains(operator, <<".">>)
  THEN IntFloat(node2[A_id]) - IntFloat(node1[A_id])
         = StrToInt(DigitPrefix(Tail(operator)))
  ELSE node1[operator] = node2[operator]

\* test_relation(node1, node2, operator) on two token objects
TestRelation(node1, node2, operator) ==
  IF operator = <<".">>
  THEN IntFloat(node2[A_id]) = IntFloat(node1[A_id]) + 1
  ELSE IF operator = <<">">>
  THEN IntFloat(node2[A_head]) = IntFloat(node1[A_id])
  ELSE IF Contains(operator, <<".">>)
  THEN \* re.match(r'\.([0-9]+)(,[0-9]+)?', operator)
       LET g1 == DigitPrefix(Tail(operator))
           rest == Slice(operator, 1 + Len(g1), Len(operator))
           g2 == IF Len(rest) > 1 /\ rest[1] = "," /\ IsDigit(rest[2])
                 THEN DigitPrefix(Tail(rest)) ELSE <<>>
           min_dist == StrToInt(g1)
           max_dist == IF Len(g2) > 0 THEN StrToInt(g2) ELSE min_dist
           dist == IntFloat(node2[A_id]) - IntFloat(node1[A_id])
       IN max_dist >= dist /\ dist >= min_dist
  ELSE node1[operator] = node2[operator]

\* a pairwise binding, the dictionary appended to result_sets: keys are the
\* node indices in insertion order, tok maps each key to its token
ResultSet(node1, tok1, node2, tok2, relation, matchers) ==
  [keys |-> IF node1 = node2 THEN <<node1>> ELSE <<node1, node2>>,
   tok |-> [n \in {node1, node2} |-> IF n = node2 THEN tok2 ELSE tok1],
   rel |-> relation,
   matchers |-> matchers]

RECURSIVE PairHits(_, _, _, _, _, _, _, _)
\* lines 358-367 and 378-387: the result sets of the double loop over the
\* matchers of node1 and node2, from the k-th pair (row-major) on
PairHits(l1, l2, node1, node2, relation, test, tokens, k) ==
  IF k > Len(l1) * Len(l2) THEN <<>>
  ELSE LET matcher1 == l1[((k - 1) \div Len(l2)) + 1]
           matcher2 == l2[((k - 1) % Len(l2)) + 1]
       IN (IF TestRelation(tokens[matcher1.token], tokens[matcher2.token], test)
           THEN <<ResultSet(node1, matcher1.token, node2, matcher2.token, relation,
                            <<matcher1, matcher2>>)>>
           ELSE <<>>)
          \o PairHits(l1, l2, node1, node2, relation, test, tokens, k + 1)

RECURSIVE KeepMatchers(_, _)
\* lines 369-375 and 389-395: node_matches[option] without the matchers
\* whose token is not in matches[option]
KeepMatchers(matchers, matched) ==
  IF Len(matchers) = 0 THEN <<>>
  ELSE (IF Head(matchers).token \in matched THEN <<Head(matchers)>> ELSE <<>>)
       \o KeepMatchers(Tail(matchers), matched)

\* the list matches[option] of lines 365-366 and 385-386, as a set: the
\* tokens the hits put at node option (node1 and node2 may be one key)
MatchedTokens(hits, option, node1, node2) ==
  {hits[k].matchers[1].token : k \in {x \in 1..Len(hits) : option = node1}}
  \cup {hits[k].matchers[2].token : k \in {x \in 1..Len(hits) : option = node2}}

\* lines 370-375 and 390-395 for one option
PruneOption(node_matches, option, matched) ==
  [n \in (DOMAIN node_matches) \cup {option} |->
     IF n = option THEN KeepMatchers(Lookup(node_matches, option), matched)
     ELSE node_matches[n]]

\* lines 353-375 and 377-395: a relation between node1 and node2
BinaryRelation(node_matches, relation, result_sets, tokens, node1, node2, test) ==
  LET hits == PairHits(Lookup(node_matches, node1), Lookup(node_matches, node2),
                       node1, node2, relation, test, tokens, 1)
  IN [hits |-> Len(hits) > 0,
      result_sets |-> result_sets \o hits,
      node_matches |->
        PruneOption(PruneOption(node_matches, node1,
                                MatchedTokens(hits, node1, node1, node2)),
                    node2, MatchedTokens(hits, node2, node1, node2))]

\* lines 341-351: the unary relation "none"
UnaryRelation(node_matches, relation, result_sets) ==
  [hits |-> Len(Lookup(node_matches, 1)) > 0,
   result_sets |->
     result_sets
     \o [k \in 1..Len(Lookup(node_matches, 1)) |->
          [keys |-> <<1>>, tok |-> [n \in {1} |-> Lookup(node_matches, 1)[k].token],
           rel |-> relation, matchers |-> <<Lookup(node_matches, 1)[k]>>]],
   node_matches |-> node_matches]

\* matches_relation(node_matches, relation, result_sets):
\* [hits, result_sets, node_matches] after the call
MatchesRelation(node_matches, relation, result_sets, tokens) ==
  IF Len(relation) = 0
  THEN [hits |-> FALSE, result_sets |-> result_sets, node_matches |-> node_matches]
  ELSE IF relation = <<"n", "o", "n", "e">>
  THEN UnaryRelation(node_matches, relation, result_sets)
  ELSE BinaryRelation(node_matches, relation, result_sets, tokens,
                      RelationNodes(relation)[1], RelationNodes(relation)[2],
                      IF Contains(relation, <<"=", "=">>)
                      THEN RelationOperator(relation).field
                      ELSE RelationOperator(relation).operator)

\* ------------------------------------------------------------------
\* merge_sets: bins_compatible, merge_bins, merge_solutions, prune_merged_bins
\* ------------------------------------------------------------------
\* A bin is the dictionary [keys, tok, rels, mref]: the node keys in
\* insertion order, the key -> token map, its own "rels" list, and mref, the
\* list object its "matchers" entry refers to.  copy() is shallow, so a bin
\* and every bin merged out of it share one matchers list; mlists[mref] is
\* that list's current content.

\* BinsCompatible with the test of a shared key but not of its token
BinsCompatibleAnyKey(bin1, m1, bin2, mlists) ==
  LET overlap ==
        \/ bin1.rels = bin2.rels
        \/ m1 = mlists[bin2.mref]
        \/ \E key \in DOMAIN bin1.tok : key \in DOMAIN bin2.tok
      non_overlap == \E key \in DOMAIN bin1.tok : key \notin DOMAIN bin2.tok
  IN overlap /\ non_overlap

\* bins_compatible(bin1, bin2); bin1 is new_set, whose matchers list is m1
BinsCompatible(bin1, m1, bin2, mlists) ==
  LET overlap ==
        \/ bin1.rels = bin2.rels
        \/ m1 = mlists[bin2.mref]
        \/ \E key \in DOMAIN bin1.tok :
              key \in DOMAIN bin2.tok /\ bin1.tok[key] = bin2.tok[key]
      non_overlap == \E key \in DOMAIN bin1.tok : key \notin DOMAIN bin2.tok
  IN overlap /\ non_overlap

RECURSIVE AppendNewIndices(_, _)
\* merge_bins, lines 517-523: bin2["matchers"] after appending each matcher
\* of bin1 whose def_index no matcher of the list has yet
AppendNewIndices(matchers2, matchers1) ==
  IF Len(matchers1) = 0 THEN matchers2
  ELSE LET matcher == Head(matchers1)
           skip == \E i \in 1..Len(matchers2) :
                      matchers2[i].def_index = matcher.def_index
       IN AppendNewIndices(IF skip THEN matchers2 ELSE Append(matchers2, matcher),
                           Tail(matchers1))

\* the first element of keys that is not a key of bin2, as a 0- or 1-element list
FirstNewKey(keys, bin2) ==
  LET new == {i \in 1..Len(keys) : keys[i] \notin DOMAIN bin2.tok}
  IN IF new = {} THEN <<>> ELSE <<keys[Min(new)]>>

\* merge_bins(bin1, bin2), lines 524-532: the bin returned (the matchers
\* list it shares with bin2 is updated by AppendNewIndices)
MergeBins(bin1, bin2) ==
  LET key == FirstNewKey(bin1.keys, bin2)[1]
  IN [keys |-> Append(bin2.keys, key),
      tok |-> [n \in (DOMAIN bin2.tok) \cup {key} |->
                 IF n = key THEN bin1.tok[key] ELSE bin2.tok[n]],
      rels |-> IF Len(bin1.rels) > 0
               THEN Append(bin2.rels, bin1.rels[Len(bin1.rels)])
               ELSE bin2.rels,
      mref |-> bin2.mref]

RECURSIVE MergeIntoBins(_, _, _, _, _)
\* merge_sets, lines 436-439: new_set against the bins 1..n0 that existed
\* when the loop began (copy(bins)), from bin k on
MergeIntoBins(st, new_set, m1, k, n0) ==
  IF k > n0 THEN st
  ELSE LET my_bin == st.bins[k]
       IN IF BinsCompatible(new_set, m1, my_bin, st.mlists)
          THEN MergeIntoBins(
                 [bins |-> Append(st.bins, MergeBins(new_set, my_bin)),
                  mlists |-> [st.mlists EXCEPT ![my_bin.mref] =
                                AppendNewIndices(st.mlists[my_bin.mref], m1)]],
                 new_set, m1, k + 1, n0)
          ELSE MergeIntoBins(st, new_set, m1, k + 1, n0)

RECURSIVE GrowBins(_, _, _)
\* merge_sets, lines 426-440: bins and matchers lists after the sets from k on
GrowBins(st, sets, k) ==
  IF k > Len(sets) THEN st
  ELSE LET set_to_merge == sets[k]
           new_set == [keys |-> set_to_merge.keys, tok |-> set_to_merge.tok,
                       rels |-> <<set_to_merge.rel>>, mref |-> 0]
           m1 == set_to_merge.matchers
           merged == MergeIntoBins(st, new_set, m1, 1, Len(st.bins))
           \* bins.append(copy(new_set)): new_set's own matchers list
           own == Len(merged.mlists) + 1
       IN GrowBins([bins |-> Append(merged.bins, [new_set EXCEPT !.mref = own]),
                    mlists |-> Append(merged.mlists, m1)],
                   sets, k + 1)

\* rel in rels
InList(x, l) == \E i \in 1..Len(l) : l[i] = x

RECURSIVE FillRelsAnyToken(_, _, _, _)
\* FillRels without the comparison of the tokens of line 453
FillRelsAnyToken(my_bin, sets, k, rel_count) ==
  IF k > Len(sets) THEN [bin |-> my_bin, appended |-> 0]
  ELSE LET set_to_merge == sets[k]
           node_ids == DOMAIN set_to_merge.tok
           add == /\ ~InList(set_to_merge.rel, my_bin.rels)
                  /\ \A nid \in node_ids : nid \in DOMAIN my_bin.tok
           next == IF add
                   THEN [my_bin EXCEPT !.rels = Append(my_bin.rels, set_to_merge.rel)]
                   ELSE my_bin
           rest == FillRelsAnyToken(next, sets, k + 1, rel_count)
       IN [bin |-> rest.bin,
           appended |-> rest.appended
                        + (IF add /\ Len(next.rels) = rel_count THEN 1 ELSE 0)]

RECURSIVE FillRels(_, _, _, _)
\* merge_sets, lines 447-457 for one bin: [bin, appended], the bin after the
\* sets from k on and how many times it was appended to solutions
FillRels(my_bin, sets, k, rel_count) ==
  IF k > Len(sets) THEN [bin |-> my_bin, appended |-> 0]
  ELSE LET set_to_merge == sets[k]
           node_ids == DOMAIN set_to_merge.tok
           add == /\ ~InList(set_to_merge.rel, my_bin.rels)
                  /\ \A nid \in node_ids : nid \in DOMAIN my_bin.tok
                  /\ \A nid \in node_ids : set_to_merge.tok[nid] = my_bin.tok[nid]
           next == IF add
                   THEN [my_bin EXCEPT !.rels = Append(my_bin.rels, set_to_merge.rel)]
                   ELSE my_bin
           rest == FillRels(next, sets, k + 1, rel_count)
       IN [bin |-> rest.bin,
           appended |-> rest.appended
                        + (IF add /\ Len(next.rels) = rel_count THEN 1 ELSE 0)]

RECURSIVE Solutions(_, _, _, _, _, _)
\* merge_sets, lines 442-457: the list solutions, each entry the bin with
\* "matchers" read through its reference
Solutions(bins, mlists, sets, node_count, rel_count, k) ==
  IF k > Len(bins) THEN <<>>
  ELSE LET my_bin == bins[k]
           filled == FillRels(my_bin, sets, 1, rel_count)
           result(b) == [keys |-> b.keys, tok |-> b.tok, rels |-> b.rels,
                         matchers |-> mlists[b.mref]]
           mine == IF Len(my_bin.keys) = node_count
                   THEN IF Len(my_bin.rels) = rel_count
                        THEN <<result(my_bin)>>
                        ELSE [i \in 1..filled.appended |-> result(filled.bin)]
                   ELSE <<>>
       IN mine \o Solutions(bins, mlists, sets, node_count, rel_count, k + 1)

\* dictionary equality: the same keys with equal values, whatever the order
\* the keys were inserted in
DictEq(a, b) == a.tok = b.tok /\ a.rels = b.rels /\ a.matchers = b.matchers

\* solution in merged
InMerged(solution, merged) == \E i \in 1..Len(merged) : DictEq(merged[i], solution)

RECURSIVE UnionMatchers(_, _)
\* merge_solutions, lines 482-487
UnionMatchers(matchers, more) ==
  IF Len(more) = 0 THEN matchers
  ELSE UnionMatchers(IF InList(Head(more), matchers) THEN matchers
                     ELSE Append(matchers, Head(more)),
                     Tail(more))

RECURSIVE KeysNotIn(_, _)
KeysNotIn(keys, dom) ==
  IF Len(keys) = 0 THEN <<>>
  ELSE (IF Head(keys) \in dom THEN <<>> ELSE <<Head(keys)>>) \o KeysNotIn(Tail(keys), dom)

RECURSIVE MergesToAdd(_, _, _, _)
\* merge_solutions, lines 472-492: merges_to_add, over the pairs
\* (candidate c, key k of solution) from pair p on, row-major
MergesToAdd(solution, merged, p, n) ==
  IF p > n THEN <<>>
  ELSE LET nk == Len(solution.keys)
           candidate == merged[((p - 1) \div nk) + 1]
           key == solution.keys[((p - 1) % nk) + 1]
           fuse == /\ ~DictEq(candidate, solution)
                   /\ key \in DOMAIN candidate.tok
                   /\ solution.tok[key] = candidate.tok[key]
                   /\ ~(\A i \in 1..Len(solution.rels) :
                          InList(solution.rels[i], candidate.rels))
           merged_solution ==
             [keys |-> solution.keys \o KeysNotIn(candidate.keys, DOMAIN solution.tok),
              tok |-> [x \in (DOMAIN solution.tok) \cup (DOMAIN candidate.tok) |->
                         IF x \in DOMAIN candidate.tok THEN candidate.tok[x]
                         ELSE solution.tok[x]],
              rels |-> solution.rels \o candidate.rels,
              matchers |-> UnionMatchers(solution.matchers, candidate.matchers)]
       IN (IF fuse THEN <<merged_solution>> ELSE <<>>)
          \o MergesToAdd(solution, merged, p + 1, n)

\* merge_solutions(solution, merged, rel_count): the list merged afterwards.
\* solution["rels"].sort() sorts the object just appended.
MergeSolutions(solution, merged, rel_count) ==
  LET is_new == ~InMerged(solution, merged)
      with == IF is_new THEN Append(merged, solution) ELSE merged
      merges_to_add ==
        IF Len(solution.rels) # rel_count
        THEN MergesToAdd(solution, with, 1, Len(with) * Len(solution.keys))
        ELSE <<>>
      sorted == IF is_new
                THEN [with EXCEPT ![Len(with)].rels = SortStrings(solution.rels)]
                ELSE with
  IN SubSeq(sorted, 1, Len(with)) \o merges_to_add

RECURSIVE MergeAllSolutions(_, _, _, _)
\* merge_sets, lines 459-461
MergeAllSolutions(solutions, merged, rel_count, k) ==
  IF k > Len(solutions) THEN merged
  ELSE MergeAllSolutions(solutions, MergeSolutions(solutions[k], merged, rel_count),
                         rel_count, k + 1)

RECURSIVE PruneMergedBins(_, _)
\* prune_merged_bins(merged_bins, rel_count): the list afterwards
PruneMergedBins(merged_bins, rel_count) ==
  IF Len(merged_bins) = 0 THEN <<>>
  ELSE (IF Len(Head(merged_bins).rels) < rel_count THEN <<>> ELSE <<Head(merged_bins)>>)
       \o PruneMergedBins(Tail(merged_bins), rel_count)

\* merge_sets(sets, node_count, rel_count)
MergeSets(sets, node_count, rel_count) ==
  LET grown == GrowBins([bins |-> <<>>, mlists |-> <<>>], sets, 1)
      solutions == Solutions(grown.bins, grown.mlists, sets, node_count, rel_count, 1)
      merged_bins == MergeAllSolutions(solutions, <<>>, rel_count, 1)
  IN PruneMergedBins(merged_bins, rel_count)

RECURSIVE WithDefIndex(_, _)
WithDefIndex(matchers, d) ==
  IF Len(matchers) = 0 THEN <<>>
  ELSE (IF Head(matchers).def_index = d THEN <<Head(matchers)>> ELSE <<>>)
       \o WithDefIndex(Tail(matchers), d)

RECURSIVE SortMatchers(_, _, _)
\* sorted(result["matchers"], key=lambda x: x.def_index): stable, by the
\* def_index values d..top in increasing order
SortMatchers(matchers, d, top) ==
  IF d > top THEN <<>>
  ELSE WithDefIndex(matchers, d) \o SortMatchers(matchers, d + 1, top)

RECURSIVE FirstGroups(_)
\* add_groups, lines 555-557: group[0] of every group of every matcher
FirstGroups(matchers) ==
  IF Len(matchers) = 0 THEN <<>>
  ELSE [i \in 1..Len(Head(matchers).groups) |-> Head(matchers).groups[i][1]]
       \o FirstGroups(Tail(matchers))

\* add_groups(result_sets): each result with its "groups" entry
AddGroups(result_sets) ==
  [i \in 1..Len(result_sets) |->
     LET result == result_sets[i]
         top == IF Len(result.matchers) = 0 THEN 0
                ELSE Max({result.matchers[k].def_index : k \in 1..Len(result.matchers)})
     IN [keys |-> result.keys, tok |-> result.tok, rels |-> result.rels,
         matchers |-> result.matchers,
         groups |-> FirstGroups(SortMatchers(result.matchers, 1, top))]]

\* ------------------------------------------------------------------
\* execute_action
\* ------------------------------------------------------------------
RECURSIVE FindGroupRefs(_)
\* re.findall(r"(\$[0-9]+[LU]?)", value): the non-overlapping matches, left
\* to right, digits and suffix taken greedily
FindGroupRefs(value) ==
  IF Len(value) = 0 THEN <<>>
  ELSE IF value[1] = "$" /\ Len(DigitPrefix(Tail(value))) > 0
  THEN LET digits == DigitPrefix(Tail(value))
           after == Slice(value, 1 + Len(digits), Len(value))
           suffix == IF Len(after) > 0 /\ after[1] \in {"L", "U"}
                     THEN <<after[1]>> ELSE <<>>
           g == <<"$">> \o digits \o suffix
       IN <<g>> \o FindGroupRefs(Slice(value, Len(g), Len(value)))
  ELSE FindGroupRefs(Tail(value))

\* lines 580-604 for one match g: [ok, value]; ok is FALSE when
\* result["groups"][group_num - 1] raises IndexError, and then missing is
\* group_num.  A list index of -1 is Python's last element.
ExpandRef(g, value, groups) ==
  LET no_dollar0 == Tail(g)
      last == no_dollar0[Len(no_dollar0)]
      case == IF last = "U" THEN "upper" ELSE IF last = "L" THEN "lower" ELSE ""
      no_dollar == IF case = "" THEN no_dollar0
                   ELSE SubSeq(no_dollar0, 1, Len(no_dollar0) - 1)
      group_num == StrToInt(no_dollar)
      index == group_num - 1
      in_range == IF index >= 0 THEN index < Len(groups) ELSE -index <= Len(groups)
      raw == IF index >= 0 THEN groups[index + 1] ELSE groups[Len(groups) + index + 1]
      group_value == IF case = "lower" THEN Lower(raw)
                     ELSE IF case = "upper" THEN Upper(raw) ELSE raw
      group_str == IntToStr(group_num)
                   \o (IF case = "lower" THEN <<"L">>
                       ELSE IF case = "upper" THEN <<"U">> ELSE <<>>)
  IN IF in_range
     THEN [ok |-> TRUE, value |-> Replace(value, <<"$">> \o group_str, group_value),
           missing |-> 0]
     ELSE [ok |-> FALSE, value |-> value, missing |-> group_num]

RECURSIVE ExpandRefs(_, _, _)
\* lines 579-604: the loop over group_num_matches
ExpandRefs(matches, value, groups) ==
  IF Len(matches) = 0 THEN [ok |-> TRUE, value |-> value, missing |-> 0]
  ELSE LET r == ExpandRef(Head(matches), value, groups)
       IN IF r.ok THEN ExpandRefs(Tail(matches), r.value, groups) ELSE r

\* lines 577-604: the value an assignment action assigns
ExpandValue(value, groups) == ExpandRefs(FindGroupRefs(value), value, groups)

\* annotations[key] = val on an insertion-ordered dictionary, kept as the
\* list of its (key, value) items
DictSet(items, key, val) ==
  IF \E i \in 1..Len(items) : items[i][1] = key
  THEN [i \in 1..Len(items) |-> IF items[i][1] = key THEN <<key, val>> ELSE items[i]]
  ELSE Append(items, <<key, val>>)

\* lines 611-613 with the test of line 612 left out: the head is set even
\* when both nodes are bound to the same token
RewireAlways(tokens, tok1, tok2) ==
  [tokens EXCEPT ![tok2] = SetAttr(tokens[tok2], A_head, tokens[tok1][A_id])]

\* execute_action, lines 611-613: if tok1 != tok2: tok2.head = tok1.id
Rewire(tokens, tok1, tok2) ==
  IF tok1 # tok2
  THEN [tokens EXCEPT ![tok2] = SetAttr(tokens[tok2], A_head, tokens[tok1][A_id])]
  ELSE tokens

\* execute_action, lines 566-613: one action on one result.  [ret, tokens,
\* annotations]: ret is "last" (the function returns "last"), "exit"
\* (sys.exit() after the missing-group message) or "next"
ExecuteOne(action, result, tokens, annotations) ==
  IF action = <<"l", "a", "s", "t">>
  THEN [ret |-> "last", tokens |-> tokens, annotations |-> annotations, missing |-> 0]
  ELSE IF Contains(action, <<":">>)
  THEN IF StartsWith(action, <<"#", "S", ":">>)
       THEN LET key_val == Split(action, <<":">>)[2]
                kv == Split1(key_val, <<"=">>)
            IN [ret |-> "next", tokens |-> tokens,
                annotations |-> DictSet(annotations, kv[1], kv[2]), missing |-> 0]
       ELSE LET node_position == StrToInt(Slice(action, 1, Find(action, <<":">>)))
                prop == Slice(action, Find(action, <<":">>) + 1, Find(action, <<"=">>))
                value == Strip(Slice(action, Find(action, <<"=">>) + 1, Len(action)))
                expanded == ExpandValue(value, result.groups)
                target == result.tok[node_position]
            IN IF expanded.ok
               THEN [ret |-> "next",
                     tokens |-> [tokens EXCEPT ![target] =
                                   SetAttr(tokens[target], prop, expanded.value)],
                     annotations |-> annotations, missing |-> 0]
               ELSE [ret |-> "exit", tokens |-> tokens, annotations |-> annotations,
                     missing |-> expanded.missing]
  ELSE IF Contains(action, <<">">>)
  THEN LET node1 == NodeInt(Split(action, <<">">>)[1])
           node2 == NodeInt(Split(action, <<">">>)[2])
           tok1 == result.tok[node1]
           tok2 == result.tok[node2]
       IN [ret |-> "next", tokens |-> Rewire(tokens, tok1, tok2),
           annotations |-> annotations, missing |-> 0]
  ELSE [ret |-> "next", tokens |-> tokens, annotations |-> annotations, missing |-> 0]

\* ------------------------------------------------------------------
\* serialize_output_tree, Sentence, make_sent_id
\* ------------------------------------------------------------------
\* A line of text is the list of its tab-separated columns, each a string:
\* "\t".join(fields) and line.split("\t") are the two directions.

\* serialize_output_tree with line 660 leaving the offset in the head
SerializeTokenHeadOffset(tok, tokoffset, input_mode) ==
  LET tok_head_string0 ==
        IF tok[A_is_super_tok] THEN tok[A_head]
        ELSE IF tok[A_head] = <<"0">> THEN <<"0">>
        ELSE FloatStr(ParseFloat(tok[A_head]))
      tok_id0 == IF tok[A_is_super_tok] THEN tok[A_id]
                 ELSE FloatStr(ParseFloat(tok[A_id]) - tokoffset)
      tok_id == Replace(tok_id0, <<".", "0">>, <<>>)
      tok_head_string1 == Replace(tok_head_string0, <<".", "0">>, <<>>)
      tok_head_string == IF Contains(tok_id, <<".">>) THEN <<"_">> ELSE tok_head_string1
      fields == <<tok_id, tok[A_text], tok[A_lemma], tok[A_pos], tok[A_cpos],
                  tok[A_morph], tok_head_string, tok[A_func]>>
  IN IF input_mode # "8col" THEN fields \o <<tok[A_head2], tok[A_func2]>> ELSE fields

\* serialize_output_tree, lines 655-672, for one token
SerializeToken(tok, tokoffset, input_mode) ==
  LET tok_head_string0 ==
        IF tok[A_is_super_tok] THEN tok[A_head]
        ELSE IF tok[A_head] = <<"0">> THEN <<"0">>
        ELSE FloatStr(ParseFloat(tok[A_head]) - tokoffset)
      tok_id0 == IF tok[A_is_super_tok] THEN tok[A_id]
                 ELSE FloatStr(ParseFloat(tok[A_id]) - tokoffset)
      tok_id == Replace(tok_id0, <<".", "0">>, <<>>)
      tok_head_string1 == Replace(tok_head_string0, <<".", "0">>, <<>>)
      tok_head_string == IF Contains(tok_id, <<".">>) THEN <<"_">> ELSE tok_head_string1
      fields == <<tok_id, tok[A_text], tok[A_lemma], tok[A_pos], tok[A_cpos],
                  tok[A_morph], tok_head_string, tok[A_func]>>
  IN IF input_mode # "8col" THEN fields \o <<tok[A_head2], tok[A_func2]>> ELSE fields

\* serialize_output_tree(tokens, tokoffset) over conll_tokens[first..]
SerializeOutputTree(tokens, first, tokoffset, input_mode) ==
  [i \in 1..(Len(tokens) - first + 1) |->
     SerializeToken(tokens[first + i - 1], tokoffset, input_mode)]

\* Sentence.__init__(sentence_string, sent_num): the parameter sent_num is
\* not stored
Sentence(sent_num) == [length |-> 0, annotations |-> <<>>, sent_num |-> 0]

\* Sentence.print_annos()
PrintAnnos(sentence) ==
  [i \in 1..Len(sentence.annotations) |->
     <<<<"#", " ">> \o sentence.annotations[i][1] \o <<"=">>
       \o sentence.annotations[i][2]>>]

\* make_sent_id(sent_id)
MakeSentId(docname, sent_id) ==
  <<<<"#", " ", "s", "e", "n", "t", "_", "i", "d", " ", "=", " ">> \o docname
    \o <<"-">> \o IntToStr(sent_id)>>

\* ------------------------------------------------------------------
\* Definition.__init__ and set_match_type
\* ------------------------------------------------------------------
\* ALIASES, as the list of its (alias, canonical) items
ALIASES ==
  << <<<<"f", "o", "r", "m">>, A_text>>,
     <<<<"u", "p", "o", "s", "t", "a", "g">>, A_pos>>,
     <<<<"x", "p", "o", "s", "t", "a", "g">>, A_cpos>>,
     <<<<"f", "e", "a", "t", "s">>, A_morph>>,
     <<<<"d", "e", "p", "r", "e", "l">>, A_func>>,
     <<<<"d", "e", "p", "s">>, A_head2>>,
     <<<<"m", "i", "s", "c">>, A_func2>> >>

\* ALIASES.get(criterion, criterion)
AliasGet(criterion) ==
  IF \E i \in 1..Len(ALIASES) : ALIASES[i][1] = criterion
  THEN ALIASES[CHOOSE i \in 1..Len(ALIASES) : ALIASES[i][1] = criterion][2]
  ELSE criterion

\* the characters re.escape puts a backslash before
RegexSpecial ==
  {"(", ")", "[", "]", "{", "}", "?", "*", "+", "-", "|", "^", "$", ".", "&", "~",
   "#", " "}

\* re.compile(value) for an anchored pattern of the family "^" prefix "(.*)$"
\* or "^" prefix ".*$", prefix literal
CompileRe(value) ==
  LET body == SubSeq(value, 2, Len(value) - 1)
      all == <<"(", ".", "*", ")">>
      capture == Len(body) >= 4 /\ SubSeq(body, Len(body) - 3, Len(body)) = all
  IN [prefix |-> IF capture THEN SubSeq(body, 1, Len(body) - 4)
                 ELSE SubSeq(body, 1, Len(body) - 2),
      capture |-> capture]

\* Definition(criterion, value, negative), set_match_type included
Definition(criterion, value, negative) ==
  LET inner == SubSeq(value, 2, Len(value) - 1)
      literal == \A i \in 1..Len(inner) : inner[i] \notin RegexSpecial
      none == [prefix |-> <<>>, capture |-> FALSE]
  IN IF value = <<"^", ".", "*", "$">> /\ ~negative
     THEN [criterion |-> AliasGet(criterion), value |-> value, negative |-> negative,
           match_func |-> "return_true", compiled_re |-> none]
     ELSE IF literal
     THEN [criterion |-> AliasGet(criterion), value |-> inner, negative |-> negative,
           match_func |-> IF negative THEN "return_exact_negative" ELSE "return_exact",
           compiled_re |-> none]
     ELSE [criterion |-> AliasGet(criterion), value |-> value, negative |-> negative,
           match_func |-> IF negative THEN "return_regex_negative" ELSE "return_regex",
           compiled_re |-> CompileRe(value)]

\* DefinitionMatcher.__init__, lines 178-182: the pattern anchored
Anchor(def_value) ==
  LET front == IF def_value[1] # "^" THEN <<"^">> \o def_value ELSE def_value
  IN IF front[Len(front)] # "$" THEN front \o <<"$">> ELSE front

\* a DefinitionMatcher: its def_index and its defs
DefinitionMatcher(defs, def_index) == [def_index |-> def_index, defs |-> defs]

\* a Transformation after parse_transformation
Transformation(definitions, relations, actions, line) ==
  [definitions |-> definitions, relations |-> relations, actions |-> actions,
   line |-> line]

\* ------------------------------------------------------------------
\* Reading a rule: escape, DefinitionMatcher.__init__, parse_transformation
\* ------------------------------------------------------------------
\* A rule line is the list of its tab-separated columns, as a line of the
\* input file is: transformation_text.split("\t") gives the list back.

\* the mask escape() writes for a masked symbol
Mask == <<"%", "%", "%", "%", "%">>

RECURSIVE Escape(_, _, _, _)
\* escape(string, symbol_to_mask, border_marker): the loop of lines 29-34
\* from a given value of inside, which line 28 sets to False
Escape(string, symbol_to_mask, border_marker, inside) ==
  IF Len(string) = 0 THEN <<>>
  ELSE LET char == Head(string)
           now == IF char = border_marker THEN ~inside ELSE inside
       IN (IF char = symbol_to_mask /\ now THEN Mask ELSE <<char>>)
          \o Escape(Tail(string), symbol_to_mask, border_marker, now)

\* lines 169-183: the Definition of one item of a node clause
DefinitionOfItem(masked_item) ==
  LET def_item == Replace(masked_item, Mask, <<"&">>)
      criterion0 == Split1(def_item, <<"=">>)[1]
      negative_criterion == criterion0[Len(criterion0)] = "!"
      criterion == IF negative_criterion
                   THEN SubSeq(criterion0, 1, Len(criterion0) - 1) ELSE criterion0
      after == Split1(def_item, <<"=">>)[2]
      def_value == Slice(after, 1, Len(after) - 1)
  IN Definition(criterion, Anchor(def_value), negative_criterion)

\* DefinitionMatcher.__init__(def_text, def_index): the matcher with the
\* def_text it keeps
DefinitionMatcherInit(def_text, def_index) ==
  LET text == Escape(def_text, "&", "/", FALSE)
      def_items == Split(text, <<"&">>)
  IN [def_index |-> def_index,
      defs |-> [k \in 1..Len(def_items) |-> DefinitionOfItem(def_items[k])],
      def_text |-> text]

RECURSIVE HandleAliasesFrom(_, _)
\* the loop of handle_aliases from item i of ALIASES
HandleAliasesFrom(orig_action, i) ==
  IF i > Len(ALIASES) THEN orig_action
  ELSE HandleAliasesFrom(Replace(orig_action, <<":">> \o ALIASES[i][1] \o <<"=">>,
                                 <<":">> \o ALIASES[i][2] \o <<"=">>), i + 1)

\* handle_aliases with the loop left out
HandleAliasesNone(orig_action) == orig_action

\* handle_aliases(orig_action)
HandleAliases(orig_action) == HandleAliasesFrom(orig_action, 1)

\* the length of what #[0-9]+ matches at offset i of s, 0 for no match
RefLength(s, i) ==
  IF Len(s) > i + 1 /\ s[i + 1] = "#" /\ IsDigit(s[i + 2])
  THEN 1 + Len(DigitPrefix(Slice(s, i + 1, Len(s))))
  ELSE 0

\* the length of what (>|\.(?:[0-9]+(?:,[0-9]+)?)?) matches at offset i of
\* s, greedily, 0 for no match
OperatorLength(s, i) ==
  IF Len(s) <= i THEN 0
  ELSE IF s[i + 1] = ">" THEN 1
  ELSE IF s[i + 1] = "."
  THEN LET d == Len(DigitPrefix(Slice(s, i + 1, Len(s))))
           rest == Slice(s, i + 1 + d, Len(s))
       IN IF d > 0 /\ Len(rest) > 1 /\ rest[1] = "," /\ IsDigit(rest[2])
          THEN 1 + d + 1 + Len(DigitPrefix(Tail(rest)))
          ELSE 1 + d
  ELSE 0

\* the ends of groups 1 to 4 when groups 1 and 2 end at e1 and e2 and group
\* 3 matches: <<>> when group 4 does not match
ChainEnds(s, e1, e2) ==
  IF OperatorLength(s, e2 + RefLength(s, e2)) > 0
  THEN <<e1, e2, e2 + RefLength(s, e2),
         e2 + RefLength(s, e2) + OperatorLength(s, e2 + RefLength(s, e2))>>
  ELSE <<>>

\* the offsets at which the four groups of the pattern of line 111, matched
\* at the start of s, end: <<>> for no match
ChainAt(s) ==
  IF RefLength(s, 0) > 0
     /\ OperatorLength(s, RefLength(s, 0)) > 0
     /\ RefLength(s, RefLength(s, 0) + OperatorLength(s, RefLength(s, 0))) > 0
  THEN ChainEnds(s, RefLength(s, 0), RefLength(s, 0) + OperatorLength(s, RefLength(s, 0)))
  ELSE <<>>

RECURSIVE SubChains(_)
\* re.sub of line 111: every non-overlapping match, left to right, replaced
\* by \1\2\3;\3\4
SubChains(s) ==
  IF Len(s) = 0 THEN <<>>
  ELSE IF ChainAt(s) # <<>>
  THEN Slice(s, 0, ChainAt(s)[3]) \o <<";">> \o Slice(s, ChainAt(s)[2], ChainAt(s)[4])
       \o SubChains(Slice(s, ChainAt(s)[4], Len(s)))
  ELSE <<Head(s)>> \o SubChains(Tail(s))

RECURSIVE SubChainsLoop(_)
\* the while loop of lines 109-112
SubChainsLoop(criterion_string) ==
  IF SubChains(criterion_string) = criterion_string THEN criterion_string
  ELSE SubChainsLoop(SubChains(criterion_string))

\* normalize_shorthand(criterion_string)
NormalizeShorthand(criterion_string) ==
  SubChainsLoop(Replace(criterion_string, <<".", "*">>,
                        <<".", "1", ",", "1", "0", "0", "0">>))

\* parse_transformation plus Transformation.__init__ for a line of three
\* columns: the Transformation object
TransformationInit(split_trans, line) ==
  LET relation_string == NormalizeShorthand(split_trans[2])
      action_string == NormalizeShorthand(split_trans[3])
      definitions_list == Split(Escape(split_trans[1], ";", "/", FALSE), <<";">>)
      actions == Split(Strip(action_string), <<";">>)
  IN [definitions |->
        [k \in 1..Len(definitions_list) |->
           DefinitionMatcherInit(Replace(definitions_list[k], Mask, <<";">>), k)],
      relations |-> Split(relation_string, <<";">>),
      actions |-> [k \in 1..Len(actions) |-> HandleAliases(actions[k])],
      line |-> line]

\* ------------------------------------------------------------------
\* Transformation.validate
\* ------------------------------------------------------------------
\* s begins with a field name, of those of the three patterns of validate
\* (lines 131, 146, 153), that prefix precedes and suffix follows: the rests
\* of s after each such beginning
AfterField(s, prefix, suffix) ==
  {Slice(s, Len(prefix) + Len(f) + Len(suffix), Len(s)) :
     f \in {g \in
          {<<"t", "e", "x", "t">>,
           <<"p", "o", "s">>,
           <<"c", "p", "o", "s">>,
           <<"l", "e", "m", "m", "a">>,
           <<"m", "o", "r", "p", "h">>,
           <<"f", "u", "n", "c">>,
           <<"h", "e", "a", "d">>,
           <<"f", "u", "n", "c", "2">>,
           <<"h", "e", "a", "d", "2">>,
           <<"n", "u", "m">>,
           <<"f", "o", "r", "m">>,
           <<"u", "p", "o", "s", "t", "a", "g">>,
           <<"x", "p", "o", "s", "t", "a", "g">>,
           <<"f", "e", "a", "t", "s">>,
           <<"d", "e", "p", "r", "e", "l">>,
           <<"d", "e", "p", "s">>,
           <<"m", "i", "s", "c">>} :
            StartsWith(s, prefix \o g \o suffix)}}

\* what follows "!?=" at the start of s, as a set: empty for no match
AfterEquals(s) ==
  LET r == IF Len(s) > 0 /\ s[1] = "!" THEN Tail(s) ELSE s
  IN IF Len(r) > 0 /\ r[1] = "=" THEN {Tail(r)} ELSE {}

\* the two re.match tests of lines 131-133 on a criterion of a node clause
ValidCriterion(criterion) ==
  \/ \E r \in AfterField(criterion, <<>>, <<>>) : \E v \in AfterEquals(r) :
       \* /[^/=]*/ matches at the start of v
       /\ Len(v) > 0
       /\ v[1] = "/"
       /\ \E k \in 2..Len(v) :
            /\ v[k] = "/"
            /\ \A j \in 2..(k - 1) : v[j] \notin {"/", "="}
  \/ /\ StartsWith(criterion, <<"p", "o", "s", "i", "t", "i", "o", "n">>)
     /\ \E v \in AfterEquals(Slice(criterion, 8, Len(criterion))) :
          \/ StartsWith(v, <<"/", "f", "i", "r", "s", "t", "/">>)
          \/ StartsWith(v, <<"/", "l", "a", "s", "t", "/">>)
          \/ StartsWith(v, <<"/", "m", "i", "d", "/">>)

\* the re.match of lines 146-148 on a criterion of the relation column
ValidRelation(criterion) ==
  LET l1 == RefLength(criterion, 0)
      rest == Slice(criterion, l1, Len(criterion))
      l2 == OperatorLength(rest, 0)
  IN /\ l1 > 0
     /\ \/ l2 > 0 /\ RefLength(rest, l2) > 0
        \/ \E r \in AfterField(rest, <<":">>, <<"=", "=">>) : RefLength(r, 0) > 0

\* the two re.match tests of lines 153-155 on a command of the action column
ValidCommand(command) ==
  LET l1 == RefLength(command, 0)
      rest == Slice(command, l1, Len(command))
      key_val == Slice(command, 3, Len(command))
      key == IF Contains(key_val, <<"=">>) THEN Slice(key_val, 0, Find(key_val, <<"=">>))
             ELSE <<>>
      val == Slice(key_val, Len(key) + 1, Len(key_val))
  IN \/ /\ l1 > 0
        /\ \/ /\ Len(rest) > 1
              /\ rest[1] = ">"
              /\ RefLength(rest, 1) = Len(rest) - 1
           \/ AfterField(rest, <<":">>, <<"=">>) # {}
     \/ /\ StartsWith(command, <<"#", "S", ":">>)
        /\ Len(key) > 0
        /\ Len(val) > 0
        \* key and val are of the characters of [A-Za-z_]
        /\ \A k \in 1..Len(key \o val) : (key \o val)[k] \in
             {"a", "b", "c", "d", "e", "f", "g", "h", "i", "j", "k", "l", "m", "n", "o", "p",
              "q", "r", "s", "t", "u", "v", "w", "x", "y", "z", "A", "B", "C", "D", "E", "F",
              "G", "H", "I", "J", "K", "L", "M", "N", "O", "P", "Q", "R", "S", "T", "U", "V",
              "W", "X", "Y", "Z", "_"}
     \/ command = <<"l", "a", "s", "t">>

RECURSIVE Concat(_)
\* a sequence of sequences, concatenated
Concat(seqs) == IF Len(seqs) = 0 THEN <<>> ELSE Head(seqs) \o Concat(Tail(seqs))

\* Transformation.validate(): the report, as the list of its messages, on
\* the node clauses (lines 127-134), then on the relations (lines 135-149),
\* then on the actions (lines 150-156)
Validate(transformation) ==
  Concat([d \in 1..Len(transformation.definitions) |->
    LET criteria == Split(Escape(transformation.definitions[d].def_text, "&", "/", FALSE),
                          <<"&">>)
    IN Concat([k \in 1..Len(criteria) |->
         IF ValidCriterion(Replace(criteria[k], Mask, <<"&">>)) THEN <<>>
         ELSE <<[kind |-> "Invalid node definition in column 1",
                 text |-> Replace(criteria[k], Mask, <<"&">>)]>>])])
  \o
  Concat([r \in 1..Len(transformation.relations) |->
    LET relation == transformation.relations[r]
    IN IF relation = <<"n", "o", "n", "e">> /\ Len(transformation.relations) = 1
       THEN IF Len(transformation.definitions) > 1
            THEN <<[kind |-> "Column 2 setting 'none' invalid with more than one definition",
                    text |-> relation]>>
            ELSE <<>>
       ELSE IF relation = <<"n", "o", "n", "e">>
       THEN <<[kind |-> "Setting 'none' invalid in column 2 when multiple relations are defined",
               text |-> relation]>>
       ELSE LET criteria == Split(relation, <<";">>)
            IN Concat([k \in 1..Len(criteria) |->
                 IF ValidRelation(Strip(criteria[k])) THEN <<>>
                 ELSE <<[kind |-> "Column 2 relation setting invalid criterion",
                         text |-> Strip(criteria[k])]>>])])
  \o
  Concat([a \in 1..Len(transformation.actions) |->
    LET commands == Split(transformation.actions[a], <<";">>)
    IN Concat([k \in 1..Len(commands) |->
         IF ValidCommand(commands[k]) THEN <<>>
         ELSE <<[kind |-> "Column 3 invalid action definition",
                 text |-> commands[k]]>>])])

\* ------------------------------------------------------------------
\* State
\* ------------------------------------------------------------------
VARIABLES
  infile,            \* run_depedit's infile: the list of input lines
  transformations,   \* DepEdit.transformations
  options,           \* run_depedit's filename, sent_id and docname arguments
  line_no,           \* the line the for loop of run_depedit is at
  conll_tokens,      \* conll_tokens without its leading 0
  input_mode,        \* self.input_mode
  tokoffset,
  supertok_offset,
  sentlength,
  supertok_length,
  output_lines,
  current_sentence,
  pc,                \* where control is
  t_idx,             \* process_sentence: index of the current transformation
  node_matches,      \* process_sentence: node_matches
  result_sets,       \* process_sentence: result_sets
  r_idx,             \* process_sentence: index of the relation to evaluate
  a_idx,             \* process_sentence: index of the action of line 315
  b_idx,             \* execute_action: index of result in result_sets
  c_idx,             \* execute_action: index of action in actions
  exit_message,      \* what was printed to stderr before sys.exit()
  matched_tokens,    \* history: conll_tokens when the current rule was matched
  last_exec,         \* history: the last action execution of the rule being applied
  last_seen,         \* history: execute_action returned "last" for this sentence
  config_file,       \* read_config_file's config_file: the list of rule lines
  trans_report,      \* what read_config_file printed to stderr before sys.exit()
  raised             \* the exception that ended the program, if one did

vars ==
  <<infile, transformations, options, line_no, conll_tokens, input_mode, tokoffset,
    supertok_offset, sentlength, supertok_length, output_lines, current_sentence, pc,
    t_idx, node_matches, result_sets, r_idx, a_idx, b_idx, c_idx, exit_message,
    matched_tokens, last_exec, last_seen, config_file, trans_report, raised>>

inputs == <<infile, transformations, options, config_file, trans_report, raised>>

reader == <<line_no, input_mode, tokoffset, supertok_offset, sentlength, supertok_length>>

matcher == <<t_idx, node_matches, result_sets, r_idx, a_idx, b_idx, c_idx>>

NoExec == [t |-> 0, a |-> 0, c |-> 0, b |-> 0, action |-> <<>>]

\* the first token of the current sentence in conll_tokens: the start of the
\* slice conll_tokens[tokoffset + supertok_offset + 1:] of line 693
SentenceFirst == tokoffset + supertok_offset + 1

\* ------------------------------------------------------------------
\* run_depedit
\* ------------------------------------------------------------------
\* "\t" not in myline
NoTab(myline) == Len(myline) = 1

\* line 706 at a line of the file, line 753 at its end
SentenceEnds ==
  IF line_no <= Len(infile) THEN sentlength > 0 /\ NoTab(infile[line_no])
  ELSE sentlength > 0

\* lines 719-741: the token of a line with tabs
ReadToken(cols, offset) ==
  LET super_tok == Contains(cols[1], <<"-">>)
      tok_id == IF super_tok THEN cols[1] ELSE FloatStr(ParseFloat(cols[1]) + offset)
      head_id == IF super_tok THEN cols[7]
                 ELSE IF cols[7] = <<"_">> THEN IntToStr(0 + offset)
                 ELSE FloatStr(ParseFloat(cols[7]) + offset)
      args == <<tok_id>> \o SubSeq(cols, 2, 6) \o <<head_id, cols[8]>>
              \o (IF Len(cols) > 8 THEN <<cols[9], cols[10]>> ELSE <<cols[7], cols[8]>>)
              \o <<cols[1], <<>>, <<"m", "i", "d">>, super_tok>>
      this_tok == ParsedToken(args)
  IN IF cols[1] = <<"1">> /\ ~super_tok
     THEN SetAttr(this_tok, A_position, <<"f", "i", "r", "s", "t">>)
     ELSE this_tok

\* lines 713-751: one line of the file, once line 706 has been dealt with
ReadLine ==
  /\ \/ pc = "read" /\ line_no <= Len(infile) /\ ~SentenceEnds
     \/ pc = "body"
  /\ LET myline == infile[line_no]
     IN IF StartsWith(myline[1], <<"#">>)
        THEN /\ output_lines' = Append(output_lines, myline)
             /\ UNCHANGED <<conll_tokens, input_mode, sentlength, supertok_length>>
        ELSE IF Len(myline) = 1 /\ Len(myline[1]) = 0
        THEN /\ output_lines' = Append(output_lines, <<<<>>>>)
             /\ UNCHANGED <<conll_tokens, input_mode, sentlength, supertok_length>>
        ELSE IF Len(myline) > 1 /\ Len(myline[1]) > 0
        THEN LET this_tok == ReadToken(myline, tokoffset)
             IN /\ conll_tokens' = Append(conll_tokens, this_tok)
                /\ input_mode' = IF Len(myline) > 8 THEN input_mode ELSE "8col"
                /\ IF this_tok[A_is_super_tok]
                   THEN /\ supertok_length' = supertok_length + 1
                        /\ UNCHANGED sentlength
                   ELSE /\ sentlength' = sentlength + 1
                        /\ UNCHANGED supertok_length
                /\ UNCHANGED output_lines
        ELSE UNCHANGED <<output_lines, conll_tokens, input_mode, sentlength,
                         supertok_length>>
  /\ line_no' = line_no + 1
  /\ pc' = "read"
  /\ UNCHANGED <<inputs, tokoffset, supertok_offset, current_sentence, matcher,
                 exit_message, matched_tokens, last_exec, last_seen>>

\* _process_sentence, lines 691-694 up to the call of process_sentence
StartSentence ==
  /\ pc = "read"
  /\ SentenceEnds
  /\ current_sentence' = [current_sentence EXCEPT !.length = sentlength]
  /\ conll_tokens' = [conll_tokens EXCEPT ![Len(conll_tokens)] =
                        SetAttr(@, A_position, <<"l", "a", "s", "t">>)]
  /\ t_idx' = 1
  /\ pc' = IF Len(transformations) = 0 THEN "serialize" ELSE "match"
  /\ UNCHANGED <<inputs, reader, output_lines, node_matches, result_sets, r_idx, a_idx,
                 b_idx, c_idx, exit_message, matched_tokens, last_exec, last_seen>>

\* _process_sentence, lines 695-698, and what follows the call: lines
\* 708-712 inside the loop, nothing after the last sentence (line 754)
SerializeSentence ==
  /\ pc = "serialize"
  /\ output_lines' =
       output_lines \o PrintAnnos(current_sentence)
       \o SerializeOutputTree(conll_tokens, SentenceFirst, tokoffset, input_mode)
       \o (IF options.sent_id
           THEN <<MakeSentId(options.filename, current_sentence.sent_num)>>
           ELSE <<>>)
  /\ IF line_no <= Len(infile)
     THEN /\ current_sentence' = Sentence(current_sentence.sent_num + 1)
          /\ tokoffset' = tokoffset + sentlength
          /\ supertok_offset' = supertok_offset + supertok_length
          /\ sentlength' = 0
          /\ supertok_length' = 0
          /\ pc' = "body"
     ELSE /\ UNCHANGED <<current_sentence, tokoffset, supertok_offset, sentlength,
                         supertok_length>>
          /\ pc' = "return"
  /\ last_seen' = FALSE
  /\ UNCHANGED <<inputs, line_no, conll_tokens, input_mode, matcher, exit_message,
                 matched_tokens, last_exec>>

\* lines 756-760
Return ==
  /\ \/ pc = "read" /\ line_no > Len(infile) /\ ~SentenceEnds
     \/ pc = "return"
  /\ output_lines' =
       IF options.docname
       THEN <<<<<<"#", " ", "n", "e", "w", "d", "o", "c", " ", "i", "d", " ", "=", " ">>
               \o options.filename>>>> \o output_lines
       ELSE output_lines
  /\ pc' = "done"
  /\ UNCHANGED <<inputs, reader, conll_tokens, current_sentence, matcher, exit_message,
                 matched_tokens, last_exec, last_seen>>

\* ------------------------------------------------------------------
\* process_sentence
\* ------------------------------------------------------------------
\* lines 302-308: the candidates of every definition of the rule
MatchDefinitions ==
  /\ pc = "match"
  /\ node_matches' = NodeMatches(transformations[t_idx].definitions, conll_tokens,
                                 SentenceFirst, Len(conll_tokens), 1)
  /\ result_sets' = <<>>
  /\ r_idx' = 1
  /\ matched_tokens' = conll_tokens
  /\ last_exec' = NoExec
  /\ pc' = "relation"
  /\ UNCHANGED <<inputs, reader, conll_tokens, output_lines, current_sentence, t_idx,
                 a_idx, b_idx, c_idx, exit_message, last_seen>>

\* lines 309-311: one turn of the loop over the relations. In test_relation,
\* lines 418-419, reached from line 359, getattr raises AttributeError when
\* the field of a relation ":field==" is no attribute of the first pair of
\* candidates.
EvalRelation ==
  /\ pc = "relation"
  /\ LET relation == transformations[t_idx].relations[r_idx]
         r == MatchesRelation(node_matches, relation, result_sets, conll_tokens)
     IN IF /\ relation # <<"n", "o", "n", "e">>
           /\ Len(relation) > 0
           /\ Contains(relation, <<"=", "=">>)
           /\ Len(Lookup(node_matches, RelationNodes(relation)[1])) > 0
           /\ Len(Lookup(node_matches, RelationNodes(relation)[2])) > 0
           /\ RelationOperator(relation).field
                \notin DOMAIN conll_tokens[
                          Lookup(node_matches, RelationNodes(relation)[1])[1].token]
        THEN /\ pc' = "raise"
             /\ raised' = <<[exception |-> "AttributeError",
                             name |-> RelationOperator(relation).field]>>
             /\ UNCHANGED <<result_sets, node_matches, r_idx>>
        ELSE /\ result_sets' = IF r.hits THEN r.result_sets ELSE <<>>
             /\ node_matches' = r.node_matches
             /\ IF r_idx < Len(transformations[t_idx].relations)
                THEN r_idx' = r_idx + 1 /\ pc' = "relation"
                ELSE r_idx' = r_idx /\ pc' = "merge"
             /\ raised' = raised
  /\ UNCHANGED <<infile, transformations, options, config_file, trans_report, reader,
                 conll_tokens, output_lines, current_sentence, t_idx,
                 a_idx, b_idx, c_idx, exit_message, matched_tokens, last_exec, last_seen>>

\* the turn of the loop of line 301 that follows transformation t
AfterTransformation(t) ==
  IF t < Len(transformations)
  THEN t_idx' = t + 1 /\ pc' = "match"
  ELSE t_idx' = t /\ pc' = "serialize"

\* lines 312-314: merge_sets, add_groups and the test of result_sets
Merge ==
  /\ pc = "merge"
  /\ LET merged == AddGroups(MergeSets(result_sets,
                                       Len(transformations[t_idx].definitions),
                                       Len(transformations[t_idx].relations)))
     IN /\ result_sets' = merged
        /\ IF Len(merged) > 0
           THEN pc' = "execute" /\ t_idx' = t_idx
           ELSE AfterTransformation(t_idx)
  /\ a_idx' = 1
  /\ b_idx' = 1
  /\ c_idx' = 1
  /\ UNCHANGED <<inputs, reader, conll_tokens, output_lines, current_sentence,
                 node_matches, r_idx, exit_message, matched_tokens, last_exec, last_seen>>

\* StopsProcessing with another word than the one execute_action returns
StopsOnStop(retval) == retval = "stop"

\* line 317: the test of execute_action's return value
StopsProcessing(retval) == retval = "last"

\* line 562: actions = action_list.split(";")
SplitActions(action_list) == Split(action_list, <<";">>)

\* lines 315-318 and execute_action: one action executed on one result, then
\* the loops of execute_action (actions inside results) and of line 315
ExecuteAction ==
  /\ pc = "execute"
  /\ LET action_list == transformations[t_idx].actions[a_idx]
         actions == SplitActions(action_list)
         action == actions[c_idx]
         result == result_sets[b_idx]
         done == ExecuteOne(action, result, conll_tokens, current_sentence.annotations)
         next_action ==
           IF a_idx < Len(transformations[t_idx].actions)
           THEN /\ a_idx' = a_idx + 1
                /\ b_idx' = 1
                /\ c_idx' = 1
                /\ pc' = "execute"
                /\ t_idx' = t_idx
           ELSE /\ AfterTransformation(t_idx)
                /\ UNCHANGED <<a_idx, b_idx, c_idx>>
     IN /\ conll_tokens' = done.tokens
        /\ current_sentence' = [current_sentence EXCEPT !.annotations = done.annotations]
        /\ last_exec' = [t |-> t_idx, a |-> a_idx, c |-> c_idx, b |-> b_idx,
                         action |-> action]
        /\ last_seen' = (last_seen \/ done.ret = "last")
        /\ exit_message' = IF done.ret = "exit"
                           THEN <<[action |-> action, group |-> done.missing]>>
                           ELSE exit_message
        /\ IF done.ret = "exit"
           THEN pc' = "exit" /\ UNCHANGED <<t_idx, a_idx, b_idx, c_idx>>
           ELSE IF done.ret = "last"
           THEN IF StopsProcessing("last")
                THEN pc' = "serialize" /\ UNCHANGED <<t_idx, a_idx, b_idx, c_idx>>
                ELSE next_action
           ELSE IF c_idx < Len(actions)
           THEN c_idx' = c_idx + 1 /\ pc' = "execute"
                /\ UNCHANGED <<t_idx, a_idx, b_idx>>
           ELSE IF b_idx < Len(result_sets)
           THEN b_idx' = b_idx + 1 /\ c_idx' = 1 /\ pc' = "execute"
                /\ UNCHANGED <<t_idx, a_idx>>
           ELSE next_action
  /\ UNCHANGED <<inputs, reader, output_lines, node_matches, result_sets, r_idx,
                 matched_tokens>>

\* ------------------------------------------------------------------
\* read_config_file
\* ------------------------------------------------------------------
\* line 288: instruction.strip() is empty, or the line starts with ";" or "#"
Skipped(instruction) ==
  \/ \A k \in 1..Len(instruction) : Strip(instruction[k]) = <<>>
  \/ StartsWith(instruction[1], <<";">>)
  \/ StartsWith(instruction[1], <<"#">>)

\* the numbers, from 1, of the lines of config_file that line 288 keeps, in
\* the order of the file
Instructions(file) ==
  SelectSeq([n \in 1..Len(file) |-> n], LAMBDA n : ~Skipped(file[n]))

\* lines 290-294: the report of the loop over self.transformations
TransReport(rules) ==
  Concat([k \in 1..Len(rules) |->
    IF Validate(rules[k]) # <<>>
    THEN <<[line |-> rules[k].line, report |-> Validate(rules[k])]>>
    ELSE <<>>])

\* DepEdit.__init__ with a config_file, which is read_config_file: the
\* Transformation objects are built in the order of the lines (lines
\* 286-288), the first line of fewer than three columns ends the program in
\* Transformation.__init__ (lines 117-121) and the first of more than three
\* raises ValueError at line 81; then lines 290-298 validate every rule.
\* Control goes on to run_depedit when nothing is reported.
ReadConfigFile ==
  /\ pc = "load"
  /\ LET kept == Instructions(config_file)
         wrong == {k \in 1..Len(kept) : Len(config_file[kept[k]]) # 3}
         built == [k \in 1..Len(kept) |-> TransformationInit(config_file[kept[k]], kept[k])]
     IN IF wrong # {}
        THEN /\ UNCHANGED transformations
             /\ IF Len(config_file[kept[Min(wrong)]]) < 3
                THEN /\ pc' = "exit"
                     /\ trans_report' =
                          <<[line |-> kept[Min(wrong)],
                             report |-> <<[kind |-> "Malformed instruction",
                                           text |-> <<>>]>>]>>
                     /\ raised' = raised
                ELSE /\ pc' = "raise"
                     /\ raised' = <<[exception |-> "ValueError", name |-> <<>>]>>
                     /\ trans_report' = trans_report
        ELSE /\ transformations' = transformations \o built
             /\ trans_report' = TransReport(transformations \o built)
             /\ pc' = IF TransReport(transformations \o built) # <<>> THEN "exit" ELSE "read"
             /\ raised' = raised
  /\ UNCHANGED <<infile, options, config_file, reader, conll_tokens, output_lines,
                 current_sentence, matcher, exit_message, matched_tokens, last_exec,
                 last_seen>>

\* ------------------------------------------------------------------
\* The inputs the model runs the program on
\* ------------------------------------------------------------------
\* pos=/(.*)/  <TAB>  none  <TAB>  #1:func=$1L;#1:lemma=y
RuleNone ==
  Transformation(
    <<DefinitionMatcher(<<Definition(A_pos, Anchor(<<"(", ".", "*", ")">>), FALSE)>>, 1)>>,
    <<<<"n", "o", "n", "e">>>>,
    <<<<"#", "1", ":", "f", "u", "n", "c", "=", "$", "1", "L">>, <<"#", "1", ":", "l", "e", "m", "m", "a", "=", "y">>>>,
    1)

\* pos=/(.*)/;pos=/(.*)/  <TAB>  #1>#2  <TAB>  #2:head=0;#2:func=$2
RuleHead ==
  Transformation(
    <<DefinitionMatcher(<<Definition(A_pos, Anchor(<<"(", ".", "*", ")">>), FALSE)>>, 1),
       DefinitionMatcher(<<Definition(A_pos, Anchor(<<"(", ".", "*", ")">>), FALSE)>>, 2)>>,
    <<<<"#", "1", ">", "#", "2">>>>,
    <<<<"#", "2", ":", "h", "e", "a", "d", "=", "0">>, <<"#", "2", ":", "f", "u", "n", "c", "=", "$", "2">>>>,
    1)

\* pos=/(.*)/;pos=/(.*)/  <TAB>  #1.#2;#1>#2  <TAB>  #2>#1
RuleAdjHead ==
  Transformation(
    <<DefinitionMatcher(<<Definition(A_pos, Anchor(<<"(", ".", "*", ")">>), FALSE)>>, 1),
       DefinitionMatcher(<<Definition(A_pos, Anchor(<<"(", ".", "*", ")">>), FALSE)>>, 2)>>,
    <<<<"#", "1", ".", "#", "2">>, <<"#", "1", ">", "#", "2">>>>,
    <<<<"#", "2", ">", "#", "1">>>>,
    1)

\* pos=/(.*)/;pos=/(.*)/;pos=/(.*)/  <TAB>  #1>#2;#2>#3  <TAB>  #1>#3;#3:func=$3
RuleChain ==
  Transformation(
    <<DefinitionMatcher(<<Definition(A_pos, Anchor(<<"(", ".", "*", ")">>), FALSE)>>, 1),
       DefinitionMatcher(<<Definition(A_pos, Anchor(<<"(", ".", "*", ")">>), FALSE)>>, 2),
       DefinitionMatcher(<<Definition(A_pos, Anchor(<<"(", ".", "*", ")">>), FALSE)>>, 3)>>,
    <<<<"#", "1", ">", "#", "2">>, <<"#", "2", ">", "#", "3">>>>,
    <<<<"#", "1", ">", "#", "3">>, <<"#", "3", ":", "f", "u", "n", "c", "=", "$", "3">>>>,
    1)

\* text=/(.*)/;text=/(.*)/;text=/(.*)/  <TAB>  #1>#2;#1>#3  <TAB>  #3:lemma=$3
RuleFork ==
  Transformation(
    <<DefinitionMatcher(<<Definition(A_text, Anchor(<<"(", ".", "*", ")">>), FALSE)>>, 1),
       DefinitionMatcher(<<Definition(A_text, Anchor(<<"(", ".", "*", ")">>), FALSE)>>, 2),
       DefinitionMatcher(<<Definition(A_text, Anchor(<<"(", ".", "*", ")">>), FALSE)>>, 3)>>,
    <<<<"#", "1", ">", "#", "2">>, <<"#", "1", ">", "#", "3">>>>,
    <<<<"#", "3", ":", "l", "e", "m", "m", "a", "=", "$", "3">>>>,
    1)

\* pos=/(.*)/;pos=/(.*)/;pos=/(.*)/  <TAB>  #1>#2;#2>#3;#1:pos==#3  <TAB>  #S:k=v
RuleTriangle ==
  Transformation(
    <<DefinitionMatcher(<<Definition(A_pos, Anchor(<<"(", ".", "*", ")">>), FALSE)>>, 1),
       DefinitionMatcher(<<Definition(A_pos, Anchor(<<"(", ".", "*", ")">>), FALSE)>>, 2),
       DefinitionMatcher(<<Definition(A_pos, Anchor(<<"(", ".", "*", ")">>), FALSE)>>, 3)>>,
    <<<<"#", "1", ">", "#", "2">>, <<"#", "2", ">", "#", "3">>, <<"#", "1", ":", "p", "o", "s", "=", "=", "#", "3">>>>,
    <<<<"#", "S", ":", "k", "=", "v">>>>,
    1)

\* pos=/.*/;pos=/.*/;pos=/.*/;pos=/.*/  <TAB>  #1>#2;#2>#3;#3>#4  <TAB>  #1:func=x
RuleChain4 ==
  Transformation(
    <<DefinitionMatcher(<<Definition(A_pos, Anchor(<<".", "*">>), FALSE)>>, 1),
       DefinitionMatcher(<<Definition(A_pos, Anchor(<<".", "*">>), FALSE)>>, 2),
       DefinitionMatcher(<<Definition(A_pos, Anchor(<<".", "*">>), FALSE)>>, 3),
       DefinitionMatcher(<<Definition(A_pos, Anchor(<<".", "*">>), FALSE)>>, 4)>>,
    <<<<"#", "1", ">", "#", "2">>, <<"#", "2", ">", "#", "3">>, <<"#", "3", ">", "#", "4">>>>,
    <<<<"#", "1", ":", "f", "u", "n", "c", "=", "x">>>>,
    1)

\* pos=/.*/;pos=/.*/;pos=/.*/;pos=/.*/  <TAB>  #1>#2;#3>#4;#2>#3  <TAB>  #1:func=x
RuleChain4Shuffled ==
  Transformation(
    <<DefinitionMatcher(<<Definition(A_pos, Anchor(<<".", "*">>), FALSE)>>, 1),
       DefinitionMatcher(<<Definition(A_pos, Anchor(<<".", "*">>), FALSE)>>, 2),
       DefinitionMatcher(<<Definition(A_pos, Anchor(<<".", "*">>), FALSE)>>, 3),
       DefinitionMatcher(<<Definition(A_pos, Anchor(<<".", "*">>), FALSE)>>, 4)>>,
    <<<<"#", "1", ">", "#", "2">>, <<"#", "3", ">", "#", "4">>, <<"#", "2", ">", "#", "3">>>>,
    <<<<"#", "1", ":", "f", "u", "n", "c", "=", "x">>>>,
    1)

\* pos=/X/;pos!=/X/  <TAB>  #1.1,2#2  <TAB>  #1:func=x
RuleDistance ==
  Transformation(
    <<DefinitionMatcher(<<Definition(A_pos, Anchor(<<"X">>), FALSE)>>, 1),
       DefinitionMatcher(<<Definition(A_pos, Anchor(<<"X">>), TRUE)>>, 2)>>,
    <<<<"#", "1", ".", "1", ",", "2", "#", "2">>>>,
    <<<<"#", "1", ":", "f", "u", "n", "c", "=", "x">>>>,
    1)

\* text=/a/  <TAB>  none  <TAB>  #S:k=v;last;#1:func=x
RuleStop ==
  Transformation(
    <<DefinitionMatcher(<<Definition(A_text, Anchor(<<"a">>), FALSE)>>, 1)>>,
    <<<<"n", "o", "n", "e">>>>,
    <<<<"#", "S", ":", "k", "=", "v">>, <<"l", "a", "s", "t">>, <<"#", "1", ":", "f", "u", "n", "c", "=", "x">>>>,
    1)

\* pos=/(.*)/  <TAB>  none  <TAB>  #1:lemma=y
RuleAfter ==
  Transformation(
    <<DefinitionMatcher(<<Definition(A_pos, Anchor(<<"(", ".", "*", ")">>), FALSE)>>, 1)>>,
    <<<<"n", "o", "n", "e">>>>,
    <<<<"#", "1", ":", "l", "e", "m", "m", "a", "=", "y">>>>,
    2)

\* pos=/(.*)/  <TAB>  none  <TAB>  #1:lemma=$1$1L
RuleTwice ==
  Transformation(
    <<DefinitionMatcher(<<Definition(A_pos, Anchor(<<"(", ".", "*", ")">>), FALSE)>>, 1)>>,
    <<<<"n", "o", "n", "e">>>>,
    <<<<"#", "1", ":", "l", "e", "m", "m", "a", "=", "$", "1", "$", "1", "L">>>>,
    1)

\* pos=/(.*)/  <TAB>  none  <TAB>  #1:lemma=$1L$1U
RuleTwiceLowerFirst ==
  Transformation(
    <<DefinitionMatcher(<<Definition(A_pos, Anchor(<<"(", ".", "*", ")">>), FALSE)>>, 1)>>,
    <<<<"n", "o", "n", "e">>>>,
    <<<<"#", "1", ":", "l", "e", "m", "m", "a", "=", "$", "1", "L", "$", "1", "U">>>>,
    1)

\* pos=/(.*)/  <TAB>  none  <TAB>  #1:lemma=$2
RuleMissing ==
  Transformation(
    <<DefinitionMatcher(<<Definition(A_pos, Anchor(<<"(", ".", "*", ")">>), FALSE)>>, 1)>>,
    <<<<"n", "o", "n", "e">>>>,
    <<<<"#", "1", ":", "l", "e", "m", "m", "a", "=", "$", "2">>>>,
    1)

\* pos=/(.*)/&text=/(.*)/  <TAB>  none  <TAB>  #1:lemma=$0
RuleZero ==
  Transformation(
    <<DefinitionMatcher(<<Definition(A_pos, Anchor(<<"(", ".", "*", ")">>), FALSE), Definition(A_text, Anchor(<<"(", ".", "*", ")">>), FALSE)>>, 1)>>,
    <<<<"n", "o", "n", "e">>>>,
    <<<<"#", "1", ":", "l", "e", "m", "m", "a", "=", "$", "0">>>>,
    1)

\* text=/a/  <TAB>  none  <TAB>  #1:lemma=$0
RuleZeroNoGroups ==
  Transformation(
    <<DefinitionMatcher(<<Definition(A_text, Anchor(<<"a">>), FALSE)>>, 1)>>,
    <<<<"n", "o", "n", "e">>>>,
    <<<<"#", "1", ":", "l", "e", "m", "m", "a", "=", "$", "0">>>>,
    1)

\* text=/ab/  <TAB>  none  <TAB>  #1:func=x
RuleSuper ==
  Transformation(
    <<DefinitionMatcher(<<Definition(A_text, Anchor(<<"a", "b">>), FALSE)>>, 1)>>,
    <<<<"n", "o", "n", "e">>>>,
    <<<<"#", "1", ":", "f", "u", "n", "c", "=", "x">>>>,
    1)

\* text=/(.*)/;text=/.*/  <TAB>  #1>#2  <TAB>  #2>#1;#2:lemma=$1
RuleRewire ==
  Transformation(
    <<DefinitionMatcher(<<Definition(A_text, Anchor(<<"(", ".", "*", ")">>), FALSE)>>, 1),
       DefinitionMatcher(<<Definition(A_text, Anchor(<<".", "*">>), FALSE)>>, 2)>>,
    <<<<"#", "1", ">", "#", "2">>>>,
    <<<<"#", "2", ">", "#", "1">>, <<"#", "2", ":", "l", "e", "m", "m", "a", "=", "$", "1">>>>,
    1)

\* the rule lines the model reads, each the list of its columns
RuleLines ==
  [
   \* text=/a/;pos=/(.*)/  <TAB>  #1>#2  <TAB>  #2:func=$1;#2:text=q
   Canonical |->
     <<<<"t", "e", "x", "t", "=", "/", "a", "/", ";", "p", "o", "s", "=", "/", "(", ".", "*", ")", "/">>,
       <<"#", "1", ">", "#", "2">>,
       <<"#", "2", ":", "f", "u", "n", "c", "=", "$", "1", ";", "#", "2", ":", "t", "e", "x", "t", "=", "q">>>>,
   \* form=/a/;upostag=/(.*)/  <TAB>  #1>#2  <TAB>  #2:deprel=$1;#2:form=q
   Alias |->
     <<<<"f", "o", "r", "m", "=", "/", "a", "/", ";", "u", "p", "o", "s", "t", "a", "g", "=", "/", "(", ".", "*", ")", "/">>,
       <<"#", "1", ">", "#", "2">>,
       <<"#", "2", ":", "d", "e", "p", "r", "e", "l", "=", "$", "1", ";", "#", "2", ":", "f", "o", "r", "m", "=", "q">>>>,
   \* func2=/.*/&cpos=/_/&morph=/_/&func=/d/&head2=/.*/  <TAB>  none  <TAB>  #1:head2=h;#1:morph=m;#1:cpos=c;#1:func2=f
   CanonicalAll |->
     <<<<"f", "u", "n", "c", "2", "=", "/", ".", "*", "/", "&", "c", "p", "o", "s", "=", "/", "_", "/", "&", "m", "o", "r", "p", "h", "=", "/", "_", "/", "&", "f", "u", "n", "c", "=", "/", "d", "/", "&", "h", "e", "a", "d", "2", "=", "/", ".", "*", "/">>,
       <<"n", "o", "n", "e">>,
       <<"#", "1", ":", "h", "e", "a", "d", "2", "=", "h", ";", "#", "1", ":", "m", "o", "r", "p", "h", "=", "m", ";", "#", "1", ":", "c", "p", "o", "s", "=", "c", ";", "#", "1", ":", "f", "u", "n", "c", "2", "=", "f">>>>,
   \* misc=/.*/&xpostag=/_/&feats=/_/&deprel=/d/&deps=/.*/  <TAB>  none  <TAB>  #1:deps=h;#1:feats=m;#1:xpostag=c;#1:misc=f
   AliasAll |->
     <<<<"m", "i", "s", "c", "=", "/", ".", "*", "/", "&", "x", "p", "o", "s", "t", "a", "g", "=", "/", "_", "/", "&", "f", "e", "a", "t", "s", "=", "/", "_", "/", "&", "d", "e", "p", "r", "e", "l", "=", "/", "d", "/", "&", "d", "e", "p", "s", "=", "/", ".", "*", "/">>,
       <<"n", "o", "n", "e">>,
       <<"#", "1", ":", "d", "e", "p", "s", "=", "h", ";", "#", "1", ":", "f", "e", "a", "t", "s", "=", "m", ";", "#", "1", ":", "x", "p", "o", "s", "t", "a", "g", "=", "c", ";", "#", "1", ":", "m", "i", "s", "c", "=", "f">>>>,
   \* text=/a/  <TAB>  none  <TAB>  #S:form=x
   Annotation |->
     <<<<"t", "e", "x", "t", "=", "/", "a", "/">>,
       <<"n", "o", "n", "e">>,
       <<"#", "S", ":", "f", "o", "r", "m", "=", "x">>>>,
   \* text=/a/  <TAB>  none  <TAB>  #1:lemma=a:form=b
   Value |->
     <<<<"t", "e", "x", "t", "=", "/", "a", "/">>,
       <<"n", "o", "n", "e">>,
       <<"#", "1", ":", "l", "e", "m", "m", "a", "=", "a", ":", "f", "o", "r", "m", "=", "b">>>>,
   \* pos=/.*/;pos=/.*/  <TAB>  #1:form==#2  <TAB>  #1:lemma=y
   AliasRelation |->
     <<<<"p", "o", "s", "=", "/", ".", "*", "/", ";", "p", "o", "s", "=", "/", ".", "*", "/">>,
       <<"#", "1", ":", "f", "o", "r", "m", "=", "=", "#", "2">>,
       <<"#", "1", ":", "l", "e", "m", "m", "a", "=", "y">>>>,
   \* pos=/.*/;pos=/.*/  <TAB>  #1:text==#2  <TAB>  #1:lemma=y
   FieldRelation |->
     <<<<"p", "o", "s", "=", "/", ".", "*", "/", ";", "p", "o", "s", "=", "/", ".", "*", "/">>,
       <<"#", "1", ":", "t", "e", "x", "t", "=", "=", "#", "2">>,
       <<"#", "1", ":", "l", "e", "m", "m", "a", "=", "y">>>>,
   \* pos=/.*/;pos=/.*/;pos=/.*/  <TAB>  #1>#2>#3  <TAB>  #1:lemma=y;last
   Shorthand |->
     <<<<"p", "o", "s", "=", "/", ".", "*", "/", ";", "p", "o", "s", "=", "/", ".", "*", "/", ";", "p", "o", "s", "=", "/", ".", "*", "/">>,
       <<"#", "1", ">", "#", "2", ">", "#", "3">>,
       <<"#", "1", ":", "l", "e", "m", "m", "a", "=", "y", ";", "l", "a", "s", "t">>>>,
   \* text=/a;b/;pos=/.*/  <TAB>  #1.*#2  <TAB>  #2:lemma=y
   AnyDistance |->
     <<<<"t", "e", "x", "t", "=", "/", "a", ";", "b", "/", ";", "p", "o", "s", "=", "/", ".", "*", "/">>,
       <<"#", "1", ".", "*", "#", "2">>,
       <<"#", "2", ":", "l", "e", "m", "m", "a", "=", "y">>>>,
   \* pos=/.*/;pos=/.*/  <TAB>  #1:pos==#2  <TAB>  #1>#2
   Self |->
     <<<<"p", "o", "s", "=", "/", ".", "*", "/", ";", "p", "o", "s", "=", "/", ".", "*", "/">>,
       <<"#", "1", ":", "p", "o", "s", "=", "=", "#", "2">>,
       <<"#", "1", ">", "#", "2">>>>,
   \* pos=/.*/;pos=/.*/  <TAB>  #1.2#2  <TAB>  #1:func=x
   Far |->
     <<<<"p", "o", "s", "=", "/", ".", "*", "/", ";", "p", "o", "s", "=", "/", ".", "*", "/">>,
       <<"#", "1", ".", "2", "#", "2">>,
       <<"#", "1", ":", "f", "u", "n", "c", "=", "x">>>>,
   \* pos=/.*/;pos=/.*/  <TAB>  #1.1,10#2  <TAB>  #2:func=x
   Wide |->
     <<<<"p", "o", "s", "=", "/", ".", "*", "/", ";", "p", "o", "s", "=", "/", ".", "*", "/">>,
       <<"#", "1", ".", "1", ",", "1", "0", "#", "2">>,
       <<"#", "2", ":", "f", "u", "n", "c", "=", "x">>>>,
   \* pos=/.*/;pos=/.*/;pos=/.*/;pos=/.*/;pos=/.*/;pos=/.*/;pos=/.*/;pos=/.*/;pos=/.*/;pos=/.*/  <TAB>  #1>#10  <TAB>  #10:func=x
   Ten |->
     <<<<"p", "o", "s", "=", "/", ".", "*", "/", ";", "p", "o", "s", "=", "/", ".", "*", "/", ";", "p", "o", "s", "=", "/", ".", "*", "/", ";", "p", "o", "s", "=", "/", ".", "*", "/", ";", "p", "o", "s", "=", "/", ".", "*", "/", ";", "p", "o", "s", "=", "/", ".", "*", "/", ";", "p", "o", "s", "=", "/", ".", "*", "/", ";", "p", "o", "s", "=", "/", ".", "*", "/", ";", "p", "o", "s", "=", "/", ".", "*", "/", ";", "p", "o", "s", "=", "/", ".", "*", "/">>,
       <<"#", "1", ">", "#", "1", "0">>,
       <<"#", "1", "0", ":", "f", "u", "n", "c", "=", "x">>>>,
   \* text=/a/  <TAB>  none
   TwoColumns |->
     <<<<"t", "e", "x", "t", "=", "/", "a", "/">>,
       <<"n", "o", "n", "e">>>>,
   \* text=/a/  <TAB>  none  <TAB>  #1:lemma=y  <TAB>  x
   FourColumns |->
     <<<<"t", "e", "x", "t", "=", "/", "a", "/">>,
       <<"n", "o", "n", "e">>,
       <<"#", "1", ":", "l", "e", "m", "m", "a", "=", "y">>,
       <<"x">>>>,
   \* foo=/a/  <TAB>  none  <TAB>  #1:lemma=y
   UnknownField |->
     <<<<"f", "o", "o", "=", "/", "a", "/">>,
       <<"n", "o", "n", "e">>,
       <<"#", "1", ":", "l", "e", "m", "m", "a", "=", "y">>>>,
   \* text=/a/;text=/b/  <TAB>  #1<#2  <TAB>  #1:lemma=y
   BadRelation |->
     <<<<"t", "e", "x", "t", "=", "/", "a", "/", ";", "t", "e", "x", "t", "=", "/", "b", "/">>,
       <<"#", "1", "<", "#", "2">>,
       <<"#", "1", ":", "l", "e", "m", "m", "a", "=", "y">>>>,
   \* text=/a/  <TAB>  none  <TAB>  #1:bar=y
   BadAction |->
     <<<<"t", "e", "x", "t", "=", "/", "a", "/">>,
       <<"n", "o", "n", "e">>,
       <<"#", "1", ":", "b", "a", "r", "=", "y">>>>,
   \* text=/a/;text=/b/  <TAB>  none  <TAB>  #1:lemma=y
   NoneTwice |->
     <<<<"t", "e", "x", "t", "=", "/", "a", "/", ";", "t", "e", "x", "t", "=", "/", "b", "/">>,
       <<"n", "o", "n", "e">>,
       <<"#", "1", ":", "l", "e", "m", "m", "a", "=", "y">>>>,
   \* ; a comment
   Comment |->
     <<<<";", " ", "a", " ", "c", "o", "m", "m", "e", "n", "t">>>>,
   \* an empty line
   Empty |->
     <<<<>>>>
  ]

\* the rule files of the single-sentence runs
RuleFiles ==
  {<<RuleNone>>, <<RuleHead>>, <<RuleAdjHead>>, <<RuleChain>>, <<RuleFork>>,
   <<RuleTriangle>>, <<RuleChain4>>, <<RuleChain4Shuffled>>, <<RuleDistance>>,
   <<RuleStop, RuleAfter>>, <<RuleTwice>>, <<RuleTwiceLowerFirst>>, <<RuleMissing>>,
   <<RuleZero>>, <<RuleZeroNoGroups>>, <<RuleRewire, RuleAfter>>, <<TransformationInit(RuleLines.Self, 1)>>,
   <<TransformationInit(RuleLines.Far, 1)>>,
   <<TransformationInit(RuleLines.Wide, 1)>>,
   <<TransformationInit(RuleLines.Ten, 1)>>}

Words == <<"a", "b", "c", "d", "e">>

\* a 10-column token line
TokenLine(id, form, pos, head) ==
  <<id, form, <<"_">>, pos, <<"_">>, <<"_">>, head, <<"d">>, <<"_">>, <<"_">>>>

BlankLine == <<<<>>>>

\* the sentences of n tokens: every head in 0..n but the token itself, every
\* tag X or Y
Sentences(n) ==
  {[i \in 1..n |-> TokenLine(IntToStr(i), <<Words[i]>>, <<pos[i]>>, IntToStr(heads[i]))] :
     heads \in {h \in [1..n -> 0..n] : \A i \in 1..n : h[i] # i},
     pos \in [1..n -> {"X", "Y"}]}

NoOptions == [filename |-> <<"f", "i", "l", "e">>, sent_id |-> FALSE, docname |-> FALSE]

\* one sentence, a blank line after it
SentenceInputs ==
  {[infile |-> sentence \o <<BlankLine>>, transformations |-> rules,
    options |-> NoOptions] :
     sentence \in UNION {Sentences(n) : n \in 1..MaxTokens}, rules \in RuleFiles}

\* a chain of four tokens: 1 <- 2 <- 3 <- 4, the root first
ChainSentence ==
  [i \in 1..4 |-> TokenLine(IntToStr(i), <<Words[i]>>, <<"X">>, IntToStr(i - 1))]

\* the chain under the two four-node rules
ChainInputs ==
  {[infile |-> ChainSentence \o <<BlankLine>>, transformations |-> rules,
    options |-> NoOptions] : rules \in {<<RuleChain4>>, <<RuleChain4Shuffled>>}}

\* the row of a super-token: an id a-b, "_" in every column but the form
SuperLine(id, form) ==
  <<id, form, <<"_">>, <<"_">>, <<"_">>, <<"_">>, <<"_">>, <<"_">>, <<"_">>, <<"_">>>>

CommentLine == <<<<"#", " ", "t">>>>

\* the sentences of the files: plain, of 8 columns, a super-token first, a
\* super-token inside, a super-token last
Blocks ==
  {<<TokenLine(<<"1">>, <<"a">>, <<"X">>, <<"0">>),
     TokenLine(<<"2">>, <<"b">>, <<"X">>, <<"1">>)>>,
   <<SubSeq(TokenLine(<<"1">>, <<"a">>, <<"X">>, <<"0">>), 1, 8),
     SubSeq(TokenLine(<<"2">>, <<"b">>, <<"Y">>, <<"1">>), 1, 8)>>,
   <<TokenLine(<<"1">>, <<"a">>, <<"Y">>, <<"0">>),
     TokenLine(<<"2">>, <<"b">>, <<"X">>, <<"1">>),
     SuperLine(<<"1", "-", "2">>, <<"a", "b">>)>>,
   <<SuperLine(<<"1", "-", "2">>, <<"a", "b">>),
     TokenLine(<<"1">>, <<"a">>, <<"X">>, <<"2">>),
     TokenLine(<<"2">>, <<"b">>, <<"Y">>, <<"0">>)>>,
   <<TokenLine(<<"1">>, <<"c">>, <<"Y">>, <<"0">>),
     SuperLine(<<"2", "-", "3">>, <<"a", "b">>),
     TokenLine(<<"2">>, <<"a">>, <<"X">>, <<"1">>),
     TokenLine(<<"3">>, <<"b">>, <<"X">>, <<"2">>)>>}

\* files of one or two sentences, with or without a comment line at the top
\* and a blank line at the end
Files ==
  {top \o first \o <<BlankLine>> \o second \o bottom :
     top \in {<<>>, <<CommentLine>>}, first \in Blocks, second \in Blocks \cup {<<>>},
     bottom \in {<<>>, <<BlankLine>>}}

AllOptions == [filename |-> <<"f", "i", "l", "e">>, sent_id |-> TRUE, docname |-> TRUE]

FileInputs ==
  {[infile |-> file, transformations |-> rules, options |-> opts] :
     file \in Files,
     rules \in {<<RuleSuper>>, <<RuleNone>>, <<RuleHead>>, <<RuleRewire, RuleAfter>>,
                <<RuleStop, RuleAfter>>},
     opts \in {NoOptions, AllOptions}}

\* DepEdit.__init__ and the first lines of run_depedit (680-688)
InitOn(Inputs) ==
  /\ \E input \in Inputs :
       /\ infile = input.infile
       /\ transformations = input.transformations
       /\ options = input.options
  /\ line_no = 1
  /\ conll_tokens = <<>>
  /\ input_mode = "10col"
  /\ tokoffset = 0
  /\ supertok_offset = 0
  /\ sentlength = 0
  /\ supertok_length = 0
  /\ output_lines = <<>>
  /\ current_sentence = Sentence(1)
  /\ pc = "read"
  /\ t_idx = 1
  /\ node_matches = <<>>
  /\ result_sets = <<>>
  /\ r_idx = 1
  /\ a_idx = 1
  /\ b_idx = 1
  /\ c_idx = 1
  /\ exit_message = <<>>
  /\ matched_tokens = <<>>
  /\ last_exec = NoExec
  /\ last_seen = FALSE
  /\ config_file = <<>>
  /\ trans_report = <<>>
  /\ raised = <<>>

Init == InitOn(SentenceInputs \cup ChainInputs \cup FileInputs)

Next ==
  \/ ReadLine
  \/ StartSentence
  \/ MatchDefinitions
  \/ EvalRelation
  \/ Merge
  \/ ExecuteAction
  \/ SerializeSentence
  \/ Return

Spec == Init /\ [][Next]_vars

\* ------------------------------------------------------------------
\* The rule files the model loads
\* ------------------------------------------------------------------
\* DepEdit(config_file) followed by run_depedit(infile): the state when
\* __init__ calls read_config_file (line 267). The files the loaded rules
\* are run on are every sentence alone and one file of two sentences. The
\* rule files are of one rule, of two rules, of a comment and an empty line
\* among the rules, and of one to three lines some of which cannot be loaded.
InitLoad ==
  /\ \E file \in
          {first \o <<BlankLine>> : first \in Blocks}
          \cup {<<TokenLine(<<"1">>, <<"a">>, <<"X">>, <<"0">>),
                  TokenLine(<<"2">>, <<"b">>, <<"X">>, <<"1">>),
                  BlankLine,
                  TokenLine(<<"1">>, <<"b">>, <<"Y">>, <<"2">>),
                  TokenLine(<<"2">>, <<"a">>, <<"X">>, <<"0">>),
                  TokenLine(<<"3">>, <<"a">>, <<"Y">>, <<"2">>)>>},
        config \in
          {<<RuleLines.Canonical>>, <<RuleLines.Alias>>, <<RuleLines.CanonicalAll>>, <<RuleLines.AliasAll>>,
           <<RuleLines.Annotation>>, <<RuleLines.Value>>, <<RuleLines.AliasRelation>>, <<RuleLines.FieldRelation>>,
           <<RuleLines.Shorthand>>, <<RuleLines.AnyDistance>>,
           <<RuleLines.Comment, RuleLines.Alias, RuleLines.Empty, RuleLines.AliasAll>>,
           <<RuleLines.Canonical, RuleLines.CanonicalAll>>,
           <<RuleLines.UnknownField>>, <<RuleLines.NoneTwice>>, <<RuleLines.FourColumns>>,
           <<RuleLines.UnknownField, RuleLines.BadRelation>>, <<RuleLines.BadAction, RuleLines.Empty, RuleLines.BadRelation>>,
           <<RuleLines.TwoColumns, RuleLines.UnknownField>>, <<RuleLines.UnknownField, RuleLines.TwoColumns>>,
           <<RuleLines.Canonical, RuleLines.TwoColumns, RuleLines.BadAction>>},
        opts \in {NoOptions, AllOptions} :
       /\ infile = file
       /\ config_file = config
       /\ options = opts
  /\ transformations = <<>>
  /\ trans_report = <<>>
  /\ raised = <<>>
  /\ line_no = 1
  /\ conll_tokens = <<>>
  /\ input_mode = "10col"
  /\ tokoffset = 0
  /\ supertok_offset = 0
  /\ sentlength = 0
  /\ supertok_length = 0
  /\ output_lines = <<>>
  /\ current_sentence = Sentence(1)
  /\ pc = "load"
  /\ t_idx = 1
  /\ node_matches = <<>>
  /\ result_sets = <<>>
  /\ r_idx = 1
  /\ a_idx = 1
  /\ b_idx = 1
  /\ c_idx = 1
  /\ exit_message = <<>>
  /\ matched_tokens = <<>>
  /\ last_exec = NoExec
  /\ last_seen = FALSE

NextLoad ==
  \/ ReadConfigFile
  \/ ReadLine
  \/ StartSentence
  \/ MatchDefinitions
  \/ EvalRelation
  \/ Merge
  \/ ExecuteAction
  \/ SerializeSentence
  \/ Return

SpecLoad == InitLoad /\ [][NextLoad]_vars

\* ------------------------------------------------------------------
\* Properties
\* ------------------------------------------------------------------
\* the rule being applied to the sentence
Rule == transformations[t_idx]

\* result_sets is what merge_sets and add_groups returned for Rule, matched
\* on matched_tokens
Merged == pc \in {"execute", "serialize"}

\* the node indices the rule declares
RuleNodes == 1..Len(Rule.definitions)

\* the non-super-tokens of the sentence
Candidates ==
  {i \in SentenceFirst..Len(matched_tokens) : ~matched_tokens[i][A_is_super_tok]}

\* token i satisfies the definition of node n
NodeHolds(n, i) == DefMatch(Rule.definitions[n], matched_tokens[i]).ok

\* the node indices a relation is about
NodesOf(relation) ==
  IF relation = <<"n", "o", "n", "e">> THEN {1}
  ELSE {RelationNodes(relation)[1], RelationNodes(relation)[2]}

\* the relation holds among the tokens tok binds, read in tokens
RelationHolds(relation, tok, tokens) ==
  IF relation = <<"n", "o", "n", "e">> THEN TRUE
  ELSE TestRelation(tokens[tok[RelationNodes(relation)[1]]],
                    tokens[tok[RelationNodes(relation)[2]]],
                    IF Contains(relation, <<"=", "=">>)
                    THEN RelationOperator(relation).field
                    ELSE RelationOperator(relation).operator)

\* the tuples a brute-force enumeration finds: one candidate per node, every
\* definition and every relation satisfied
BruteForce ==
  {tok \in [RuleNodes -> Candidates] :
     /\ \A n \in RuleNodes : NodeHolds(n, tok[n])
     /\ \A r \in 1..Len(Rule.relations) :
          RelationHolds(Rule.relations[r], tok, matched_tokens)}

\* the assignments of candidates to the nodes of one relation that satisfy it
SatisfyingPairs(relation) ==
  {tok \in [NodesOf(relation) -> Candidates] :
     /\ \A n \in NodesOf(relation) : NodeHolds(n, tok[n])
     /\ RelationHolds(relation, tok, matched_tokens)}

\* C1: join completeness.  Every tuple of non-super-tokens that assigns one
\* token to each declared node, satisfies every node definition and satisfies
\* every declared relation is among the bindings merge_sets returned.
JoinCompleteness ==
  Merged => \A tok \in BruteForce :
              \E b \in 1..Len(result_sets) : result_sets[b].tok = tok

DistinctBindings ==
  Merged => \A b1, b2 \in 1..Len(result_sets) :
              b1 # b2 => result_sets[b1].tok # result_sets[b2].tok

IsLastAction(a, c) ==
  a = Len(Rule.actions) /\ c = Len(SplitActions(Rule.actions[a]))

\* C5: binding-major order.  The execution that follows another of the same
\* rule is either the next declared action on the same binding or, once
\* every action has been executed on that binding, the first action on the
\* next binding.
BindingMajorOrder ==
  (pc = "execute" /\ last_exec # NoExec) =>
    IF b_idx = last_exec.b
    THEN \/ a_idx = last_exec.a /\ c_idx = last_exec.c + 1
         \/ /\ a_idx = last_exec.a + 1
            /\ c_idx = 1
            /\ last_exec.c = Len(SplitActions(Rule.actions[last_exec.a]))
    ELSE /\ b_idx = last_exec.b + 1
         /\ IsLastAction(last_exec.a, last_exec.c)
         /\ a_idx = 1
         /\ c_idx = 1

\* C6: last terminates the sentence.  Executions of a rule follow the
\* declaration order of its actions, and once execute_action has returned
\* "last" the next step executes nothing, changes no token, and leaves
\* the annotations of the sentence as they are until it is serialized.
LastTerminatesSentence ==
  [][/\ (last_exec # NoExec /\ last_exec' # NoExec /\ last_exec' # last_exec)
          => \/ last_exec'.a > last_exec.a
             \/ last_exec'.a = last_exec.a /\ last_exec'.c >= last_exec.c
     /\ last_seen
          => /\ last_exec' = last_exec
             /\ conll_tokens' = conll_tokens
             /\ \/ current_sentence' = current_sentence
                \/ /\ pc = "serialize"
                   /\ current_sentence' = Sentence(current_sentence.sent_num + 1)]_vars

\* "last" has been executed while the rule still has an action to execute
\* and another rule follows it
LastTerminatesSentenceWitness ==
  /\ last_seen
  /\ pc = "serialize"
  /\ last_exec.action = <<"l", "a", "s", "t">>
  /\ a_idx < Len(Rule.actions)
  /\ t_idx < Len(transformations)

\* the rows of a file that become tokens: lines 718 and 719
TokenRows(lines) == SelectSeq(lines, LAMBDA l : Len(l) > 1 /\ Len(l[1]) > 0)

\* the id and head columns of the super-token rows among lines
SuperRows(lines) ==
  LET rows == SelectSeq(lines, LAMBDA l : Len(l) > 1 /\ Contains(l[1], <<"-">>))
  IN [k \in 1..Len(rows) |-> <<rows[k][1], rows[k][7]>>]

\* C7: super-token opacity and preservation.  No super-token is a match
\* candidate of a node; every super-token object still has the fields it was
\* read with (position, which the reader sets and no action can name, apart);
\* and the id and head columns of the super-token rows of the output are
\* those of the input, in the same order.
SuperTokensPreserved ==
  /\ \A n \in DOMAIN node_matches : \A k \in 1..Len(node_matches[n]) :
       ~conll_tokens[node_matches[n][k].token][A_is_super_tok]
  /\ \A i \in 1..Len(conll_tokens) :
       conll_tokens[i][A_is_super_tok]
         => [conll_tokens[i] EXCEPT ![A_position] = <<"m", "i", "d">>]
              = ReadToken(TokenRows(infile)[i], 0)
  /\ pc = "done" => SuperRows(output_lines) = SuperRows(infile)

\* the run is over, the second sentence of the file holds a super-token and
\* the last rule executed actions on that sentence
SuperTokensPreservedWitness ==
  /\ pc = "done"
  /\ tokoffset > 0
  /\ last_exec # NoExec
  /\ \E i \in SentenceFirst..Len(conll_tokens) : conll_tokens[i][A_is_super_tok]

RECURSIVE OwnGroups(_, _)
\* the captures of the tokens tok binds, nodes n.. in increasing order: the
\* first element of each group tuple
OwnGroups(tok, n) ==
  IF n > Len(Rule.definitions) THEN <<>>
  ELSE LET groups == DefMatch(Rule.definitions[n], matched_tokens[tok[n]]).groups
       IN [i \in 1..Len(groups) |-> groups[i][1]] \o OwnGroups(tok, n + 1)

\* C8: capture groups belong to the binding's own tokens.  The matchers of a
\* binding are one per node, the matcher of node i is the match of the token
\* bound to node i, and the groups are the captures of the bound tokens.
GroupsOfOwnTokens ==
  Merged => \A b \in 1..Len(result_sets) :
    /\ Len(result_sets[b].matchers) = Len(Rule.definitions)
    /\ \A k \in 1..Len(result_sets[b].matchers) :
         /\ result_sets[b].matchers[k].def_index \in DOMAIN result_sets[b].tok
         /\ result_sets[b].matchers[k].token
              = result_sets[b].tok[result_sets[b].matchers[k].def_index]
    /\ result_sets[b].groups = OwnGroups(result_sets[b].tok, 1)

\* an action "#n:prop=value"
IsAssignment(action) ==
  Contains(action, <<":">>) /\ ~StartsWith(action, <<"#", "S", ":">>)

\* prop of "#n:prop=value"
AssignedProp(action) ==
  Slice(action, Find(action, <<":">>) + 1, Find(action, <<"=">>))

\* value of "#n:prop=value"
AssignedValue(action) ==
  Strip(Slice(action, Find(action, <<"=">>) + 1, Len(action)))

\* the token "#n:prop=value" is about in the binding it was last executed on
AssignedToken(action) ==
  result_sets[last_exec.b].tok[StrToInt(Slice(action, 1, Find(action, <<":">>)))]

\* n of a back-reference $n, $nL or $nU
RefNumber(g) == StrToInt(DigitPrefix(Tail(g)))

\* the indices of the back-references of value that groups has no entry for
OutOfRange(value, groups) ==
  {RefNumber(FindGroupRefs(value)[k]) : k \in 1..Len(FindGroupRefs(value))}
  \ (1..Len(groups))

RECURSIVE ExpandEach(_, _)
\* value with each $n, $nL, $nU replaced on its own by groups[n], as it is,
\* lower-cased or upper-cased, and the rest as written
ExpandEach(value, groups) ==
  IF Len(value) = 0 THEN <<>>
  ELSE IF value[1] = "$" /\ Len(DigitPrefix(Tail(value))) > 0
  THEN LET g == Head(FindGroupRefs(value))
           group == groups[RefNumber(g)]
       IN (IF g[Len(g)] = "L" THEN Lower(group)
           ELSE IF g[Len(g)] = "U" THEN Upper(group) ELSE group)
          \o ExpandEach(Slice(value, Len(g), Len(value)), groups)
  ELSE <<value[1]>> \o ExpandEach(Tail(value), groups)

\* C9: back-reference expansion.  After an assignment whose back-references
\* are all in range, the assigned field is the value with each $n, $nL, $nU
\* replaced independently by the group, and the rest as written.
BackReferenceExpansion ==
  (/\ last_exec # NoExec
   /\ IsAssignment(last_exec.action)
   /\ OutOfRange(AssignedValue(last_exec.action), result_sets[last_exec.b].groups) = {})
  => conll_tokens[AssignedToken(last_exec.action)][AssignedProp(last_exec.action)]
       = ExpandEach(AssignedValue(last_exec.action), result_sets[last_exec.b].groups)

\* C10: a missing capture group is fatal.  After the execution of an
\* assignment one of whose back-references is out of range, the run has
\* aborted with the message naming the action and the index.
MissingGroupIsFatal ==
  (/\ last_exec # NoExec
   /\ IsAssignment(last_exec.action)
   /\ OutOfRange(AssignedValue(last_exec.action), result_sets[last_exec.b].groups) # {})
  => /\ pc = "exit"
     /\ Len(exit_message) = 1
     /\ exit_message[1].action = last_exec.action
     /\ exit_message[1].group
          \in OutOfRange(AssignedValue(last_exec.action), result_sets[last_exec.b].groups)

\* the "# sent_id = ..." lines of the output, in order
SentIdLines(lines) ==
  SelectSeq(lines, LAMBDA l : Len(l) = 1 /\ StartsWith(l[1], <<"#", " ", "s", "e", "n", "t", "_", "i", "d">>))

\* C16: sentence counter.  With sent_id enabled, the sent_id line emitted
\* after the n-th sentence of the file reads "# sent_id = <doc>-<n>", so no
\* two sentences get the same sent_id.
SentenceCounter ==
  \A n \in 1..Len(SentIdLines(output_lines)) :
    SentIdLines(output_lines)[n]
      = <<<<"#", " ", "s", "e", "n", "t", "_", "i", "d", " ", "=", " ">>
          \o options.filename \o <<"-">> \o IntToStr(n)>>

\* the two node numbers of a rewire action "#i>#j"
RewireNodes(action) ==
  LET parts == Split(action, <<">">>)
  IN <<StrToInt(Tail(parts[1])), StrToInt(Tail(parts[2]))>>

\* the action about to be executed
CurrentAction == SplitActions(Rule.actions[a_idx])[c_idx]

IsRewire(action) == ~Contains(action, <<":">>) /\ Contains(action, <<">">>)

\* C19: head rewire.  Executing "#i>#j" on a binding sets the head of the
\* token bound to #j to the id of the token bound to #i and changes no other
\* field, token or annotation; when both nodes are bound to the same token
\* nothing changes, so the step never makes a token its own head.
HeadRewire ==
  [][(pc = "execute" /\ IsRewire(CurrentAction))
       => LET tok1 == result_sets[b_idx].tok[RewireNodes(CurrentAction)[1]]
              tok2 == result_sets[b_idx].tok[RewireNodes(CurrentAction)[2]]
          IN /\ conll_tokens' =
                  IF tok1 = tok2 THEN conll_tokens
                  ELSE [conll_tokens EXCEPT
                          ![tok2] = [@ EXCEPT ![A_head] = conll_tokens[tok1][A_id]]]
             /\ current_sentence' = current_sentence
             /\ \A t \in 1..Len(conll_tokens) :
                  conll_tokens'[t][A_head] = conll_tokens'[t][A_id]
                    => conll_tokens[t][A_head] = conll_tokens[t][A_id]]_vars

\* a rewire has just been executed on a binding of both nodes to one token
HeadRewireWitness ==
  /\ last_exec # NoExec
  /\ IsRewire(last_exec.action)
  /\ result_sets[last_exec.b].tok[1] = result_sets[last_exec.b].tok[2]
  /\ \E b \in 1..Len(result_sets) : result_sets[b].tok[1] # result_sets[b].tok[2]

\* a token row that is not a super-token row
IsOrdinaryRow(l) == Len(l) > 1 /\ Len(l[1]) > 0 /\ ~Contains(l[1], <<"-">>)

\* the ids of the ordinary rows of lines count 1, 2, ... from n + 1 and
\* start again at 1 after every blank line
RECURSIVE IdsCountUp(_, _)
IdsCountUp(lines, n) ==
  IF Len(lines) = 0 THEN TRUE
  ELSE IF IsOrdinaryRow(Head(lines))
  THEN Head(lines)[1] = IntToStr(n + 1) /\ IdsCountUp(Tail(lines), n + 1)
  ELSE IF Head(lines) = <<<<>>>> THEN IdsCountUp(Tail(lines), 0)
  ELSE IdsCountUp(Tail(lines), n)

\* no action of a rule sets a head: no rewire and no assignment to head
KeepsHeads(rules) ==
  \A t \in 1..Len(rules) : \A a \in 1..Len(rules[t].actions) :
    LET actions == SplitActions(rules[t].actions[a])
    IN \A c \in 1..Len(actions) :
         /\ ~IsRewire(actions[c])
         /\ ~Contains(actions[c], <<":", "h", "e", "a", "d", "=">>)

\* the distance between the internal id of token i and the id of its output
\* row: the same for the tokens of one sentence, larger in every later one
OffsetOf(i) ==
  ParseFloat(conll_tokens[i][A_id]) - StrToInt(TokenRows(output_lines)[i][1])

\* C12: id renumbering round trip.  When the run is over, the ids of the
\* ordinary tokens of every output sentence are 1..n; a head no rule has set
\* is emitted as it was read; and a head that is the internal id of a token
\* of the same sentence, as a rewire leaves it, is emitted as the id of that
\* token's output row.
IdRoundTrip ==
  pc = "done" =>
    /\ IdsCountUp(output_lines, 0)
    /\ Len(TokenRows(output_lines)) = Len(conll_tokens)
    /\ \A i \in 1..Len(conll_tokens) :
         ~conll_tokens[i][A_is_super_tok] =>
           /\ KeepsHeads(transformations)
                => TokenRows(output_lines)[i][7] = TokenRows(infile)[i][7]
           /\ \A j \in 1..Len(conll_tokens) :
                (~conll_tokens[j][A_is_super_tok]
                 /\ OffsetOf(i) = OffsetOf(j)
                 /\ conll_tokens[i][A_head] = conll_tokens[j][A_id])
                  => TokenRows(output_lines)[i][7] = TokenRows(output_lines)[j][1]

\* the run is over and a token of a later sentence, read after a super-token
\* row, has been given a head by a rewire
IdRoundTripWitness ==
  /\ pc = "done"
  /\ \E i \in 1..Len(conll_tokens) :
       /\ ~conll_tokens[i][A_is_super_tok]
       /\ ParseFloat(conll_tokens[i][A_id]) > StrToInt(TokenRows(output_lines)[i][1])
       /\ TokenRows(output_lines)[i][7] # TokenRows(infile)[i][7]
       /\ TokenRows(output_lines)[i][7] # <<"0">>
       /\ \E k \in 1..(i - 1) : conll_tokens[k][A_is_super_tok]

\* the column count of each token row, in order
ColumnCounts(lines) == [k \in 1..Len(TokenRows(lines)) |-> Len(TokenRows(lines)[k])]

\* C15: column count is preserved.  Every token row of the output has as
\* many columns as the row of the input it came from: 8 for a row read with
\* 8 columns, 10 for a row read with 10.
ColumnCountPreserved ==
  pc = "done" => ColumnCounts(output_lines) = ColumnCounts(infile)

\* the indices in conll_tokens of the ordinary tokens of the current sentence
SentenceTokens ==
  {i \in SentenceFirst..Len(conll_tokens) : ~conll_tokens[i][A_is_super_tok]}

\* C17: position invariant.  When the rules are about to be matched against
\* a sentence, its last ordinary token has position "last", its first
\* ordinary token, unless it is also the last, has position "first", and
\* every other ordinary token has position "mid".
PositionInvariant ==
  (pc = "match" /\ t_idx = 1 /\ SentenceTokens # {}) =>
    \A i \in SentenceTokens :
      conll_tokens[i][A_position] =
        IF i = Max(SentenceTokens) THEN <<"l", "a", "s", "t">>
        ELSE IF i = Min(SentenceTokens) THEN <<"f", "i", "r", "s", "t">>
        ELSE <<"m", "i", "d">>

\* the relation about to be evaluated
CurrentRelation == Rule.relations[r_idx]

\* what a relation text says: the node numbers after its first and its last
\* "#", and between them ">", ":field==" or "." with an optional distance
\* k or k,m
RelationFirstNode(relation) == StrToInt(DigitPrefix(Tail(relation)))

RelationSecondNode(relation) ==
  StrToInt(Slice(relation, RFind(relation, <<"#">>) + 1, Len(relation)))

RelationMiddle(relation) ==
  Slice(relation, 1 + Len(DigitPrefix(Tail(relation))), RFind(relation, <<"#">>))

\* the relation of the text holds between tokens tok_i and tok_j
RelationSays(relation, tok_i, tok_j) ==
  LET middle == RelationMiddle(relation)
      id_i == ParseFloat(tok_i[A_id])
      id_j == ParseFloat(tok_j[A_id])
  IN IF middle = <<">">> THEN ParseFloat(tok_j[A_head]) = id_i
     ELSE IF middle = <<".">> THEN id_j = id_i + 1
     ELSE IF Head(middle) = "."
     THEN IF Contains(middle, <<",">>)
          THEN /\ StrToInt(Slice(middle, 1, Find(middle, <<",">>))) <= id_j - id_i
               /\ id_j - id_i
                    <= StrToInt(Slice(middle, Find(middle, <<",">>) + 1, Len(middle)))
          ELSE id_j - id_i = StrToInt(Tail(middle))
     ELSE LET field == Slice(middle, 1, Len(middle) - 2)
          IN tok_i[field] = tok_j[field]

\* the tokens that are candidates of node n
CandidatesNow(n) == {Lookup(node_matches, n)[k].token : k \in 1..Len(Lookup(node_matches, n))}

\* the pairs of candidates the relation text admits
PairsSaid(relation) ==
  {p \in CandidatesNow(RelationFirstNode(relation))
           \X CandidatesNow(RelationSecondNode(relation)) :
     RelationSays(relation, conll_tokens[p[1]], conll_tokens[p[2]])}

\* C13: relation evaluation.  A step of matches_relation on a binary
\* relation appends one binding per pair of current candidates of its two
\* nodes that the relation text admits, keyed by the two node numbers of the
\* text, and no other binding; on "none" it appends one unary binding per
\* candidate of node 1; with no binding at all the result sets are emptied.
RelationEvaluation ==
  [][pc = "relation" =>
       LET relation == CurrentRelation
           old == Len(result_sets)
           new == SubSeq(result_sets', old + 1, Len(result_sets'))
       IN IF relation = <<"n", "o", "n", "e">>
          THEN /\ Len(result_sets') = old + Cardinality(CandidatesNow(1))
               /\ {new[k].tok[1] : k \in 1..Len(new)} = CandidatesNow(1)
               /\ \A k \in 1..Len(new) : new[k].keys = <<1>>
          ELSE IF PairsSaid(relation) = {}
          THEN result_sets' = <<>>
          ELSE /\ SubSeq(result_sets', 1, old) = result_sets
               /\ Len(new) = Cardinality(PairsSaid(relation))
               /\ {<<new[k].tok[RelationFirstNode(relation)],
                     new[k].tok[RelationSecondNode(relation)]>> : k \in 1..Len(new)}
                    = PairsSaid(relation)
               /\ \A k \in 1..Len(new) :
                    /\ DOMAIN new[k].tok
                         = {RelationFirstNode(relation), RelationSecondNode(relation)}
                    /\ new[k].rel = relation]_vars

\* bindings have been built for a range distance "#1.1,10#2", with a pair
\* two tokens apart among them, and for "#1>#10"
RelationEvaluationWitness ==
  /\ pc \in {"relation", "merge"}
  /\ \E k \in 1..Len(result_sets) :
       \/ /\ result_sets[k].rel = <<"#", "1", ".", "1", ",", "1", "0", "#", "2">>
          /\ result_sets[k].tok[2] = result_sets[k].tok[1] + 2
       \/ /\ result_sets[k].rel = <<"#", "1", ">", "#", "1", "0">>
          /\ 10 \in DOMAIN result_sets[k].tok

RECURSIVE JoinWith(_, _)
\* the strings of a list joined by sep
JoinWith(strings, sep) ==
  IF Len(strings) = 0 THEN <<>>
  ELSE IF Len(strings) = 1 THEN strings[1]
  ELSE strings[1] \o sep \o JoinWith(Tail(strings), sep)

\* a field name with its alias, if it is one, replaced by the canonical name
CanonicalName(name) ==
  IF \E i \in 1..Len(ALIASES) : ALIASES[i][1] = name
  THEN ALIASES[CHOOSE i \in 1..Len(ALIASES) : ALIASES[i][1] = name][2]
  ELSE name

\* a criterion name=/value/ or name!=/value/ with its name made canonical
CanonicalCriterion(criterion) ==
  LET name == Slice(criterion, 0, Find(criterion, <<"=">>))
  IN IF name # <<>> /\ name[Len(name)] = "!"
     THEN CanonicalName(SubSeq(name, 1, Len(name) - 1)) \o <<"!">>
          \o Slice(criterion, Len(name), Len(criterion))
     ELSE CanonicalName(name) \o Slice(criterion, Len(name), Len(criterion))

\* the pieces of text between the separators that are outside /.../
PiecesOutside(text, sep) ==
  LET pieces == Split(Escape(text, sep, "/", FALSE), <<sep>>)
  IN [k \in 1..Len(pieces) |-> Replace(pieces[k], Mask, <<sep>>)]

\* the node column with every field name made canonical
CanonicalNodes(text) ==
  LET nodes == PiecesOutside(text, ";")
  IN JoinWith([n \in 1..Len(nodes) |->
                 LET criteria == PiecesOutside(nodes[n], "&")
                 IN JoinWith([k \in 1..Len(criteria) |-> CanonicalCriterion(criteria[k])],
                             <<"&">>)],
              <<";">>)

\* an action #n:field=value
AssignsField(action) ==
  /\ RefLength(action, 0) > 0
  /\ Len(action) > RefLength(action, 0)
  /\ action[RefLength(action, 0) + 1] = ":"
  /\ Contains(action, <<"=">>)

\* an assignment with its field name made canonical; any other action as it is
CanonicalAction(action) ==
  IF AssignsField(action)
  THEN LET start == RefLength(action, 0) + 1
           stop == Find(action, <<"=">>)
       IN Slice(action, 0, start) \o CanonicalName(Slice(action, start, stop))
          \o Slice(action, stop, Len(action))
  ELSE action

\* the action column with the field name of every assignment made canonical
CanonicalActions(text) ==
  LET actions == Split(text, <<";">>)
  IN JoinWith([k \in 1..Len(actions) |-> CanonicalAction(actions[k])], <<";">>)

\* a rule line of three columns with the field names of its node clauses and
\* of its assignments made canonical
CanonicalLine(line) ==
  IF Len(line) = 3 /\ ~Skipped(line)
  THEN <<CanonicalNodes(line[1]), line[2], CanonicalActions(line[3])>>
  ELSE line

\* what the run reads of a rule: all of it but the text kept for messages
RuleRead(rule) ==
  [definitions |-> [d \in 1..Len(rule.definitions) |->
                      [def_index |-> rule.definitions[d].def_index,
                       defs |-> rule.definitions[d].defs]],
   relations |-> rule.relations, actions |-> rule.actions, line |-> rule.line]

\* the rule file has been read with no line of a wrong column count
Loaded == pc # "load" /\ \A k \in 1..Len(Instructions(config_file)) :
       Len(config_file[Instructions(config_file)[k]]) = 3

\* C11: alias equivalence.  The rules built from a rule file are, in
\* everything the run reads of them, the rules built from the same file with
\* every alias in a node clause or an assignment replaced by its canonical
\* name, and the file is accepted or rejected alike; the run, which reads
\* nothing else of the rule file, therefore yields the same output.
AliasEquivalence ==
  Loaded =>
    LET canonical == [n \in 1..Len(config_file) |-> CanonicalLine(config_file[n])]
        built == [k \in 1..Len(Instructions(canonical)) |->
                    TransformationInit(canonical[Instructions(canonical)[k]],
                                       Instructions(canonical)[k])]
    IN /\ (trans_report = <<>>) = (TransReport(built) = <<>>)
       /\ [k \in 1..Len(transformations) |-> RuleRead(transformations[k])]
            = [k \in 1..Len(built) |-> RuleRead(built[k])]

\* a file with aliases in node clauses and assignments has been loaded and
\* run, and its rules have changed the sentence
AliasEquivalenceWitness ==
  /\ pc = "done"
  /\ \E n \in 1..Len(config_file) :
       /\ Len(config_file[n]) = 3
       /\ CanonicalNodes(config_file[n][1]) # config_file[n][1]
       /\ CanonicalActions(config_file[n][3]) # config_file[n][3]
  /\ TokenRows(output_lines) # TokenRows(infile)

\* the lines of the rule file that cannot be loaded: a wrong number of
\* columns, or a rule that validate() reports
InvalidLines ==
  {n \in {m \in 1..Len(config_file) : ~Skipped(config_file[m])} :
     \/ Len(config_file[n]) # 3
     \/ Validate(TransformationInit(config_file[n], n)) # <<>>}

\* C14: rule-load errors are accumulated.  Once a rule file with several
\* invalid lines has been read, the program has ended with a report that
\* names every invalid line, whatever the kind of its error, and no sentence
\* has been processed.
LoadErrorsAccumulated ==
  (pc # "load" /\ Cardinality(InvalidLines) > 1) =>
    /\ pc = "exit"
    /\ {trans_report[k].line : k \in 1..Len(trans_report)} = InvalidLines
    /\ output_lines = <<>>
    /\ conll_tokens = <<>>

\* the text after the first "=" of an action, <<>> when it has none
ValuePart(action) ==
  IF Contains(action, <<"=">>)
  THEN Slice(action, Find(action, <<"=">>) + 1, Len(action)) ELSE <<>>

\* the actions of a rule as its line has them
WrittenActions(rule) == Split(Strip(config_file[rule.line][3]), <<";">>)

\* C18: alias rewriting touches only assignments.  In every loaded rule a
\* sentence annotation "#S:key=value" is the action as it was written, key
\* included, and the value of every action is the value as it was written.
ActionsKeptAsWritten ==
  Loaded =>
    \A t \in 1..Len(transformations) :
      /\ Len(transformations[t].actions) = Len(WrittenActions(transformations[t]))
      /\ \A c \in 1..Len(transformations[t].actions) :
           LET written == WrittenActions(transformations[t])[c]
               loaded == transformations[t].actions[c]
           IN /\ StartsWith(written, <<"#", "S", ":">>) => loaded = written
              /\ ValuePart(loaded) = ValuePart(written)

\* the field of a relation "#i:field==#j" of a loaded rule, as a set
ComparedFields(rule) ==
  {Slice(RelationMiddle(rule.relations[r]), 1, Len(RelationMiddle(rule.relations[r])) - 2) :
     r \in {q \in 1..Len(rule.relations) : Contains(rule.relations[q], <<"=", "=">>)}}

\* the fields the node clauses of a loaded rule test
TestedFields(rule) ==
  UNION {{rule.definitions[d].defs[k].criterion : k \in 1..Len(rule.definitions[d].defs)} :
           d \in 1..Len(rule.definitions)}

\* C20: validation protects the hot path.  The run of rules that passed
\* validation has not ended in an AttributeError, and when it is over every
\* field that a rule tests in a node clause or compares in a relation is a
\* field of every token read.
ValidatedFieldsResolve ==
  (Loaded /\ pc \in {"raise", "done"}) =>
    /\ \A k \in 1..Len(raised) : raised[k].exception # "AttributeError"
    /\ \A t \in 1..Len(transformations) : \A i \in 1..Len(conll_tokens) :
         TestedFields(transformations[t]) \cup ComparedFields(transformations[t])
           \subseteq DOMAIN conll_tokens[i]

====
